---- MODULE Spec2Model ----
(***************************************************************************)
(* State-machine model of the feedback-photo-bot webhook                    *)
(* (supabase/functions/tg-webhook/index.ts) and of the stored procedure     *)
(* append_submission_photo (supabase/migrations/0003_bot_submissions_v2.sql)*)
(*                                                                         *)
(* Texts are sequences of symbols.  A date candidate is spelled character   *)
(* by character; a command or a button label is one symbol (its characters  *)
(* are never inspected by the code, only compared for equality).  Labels    *)
(* are transliterated to ASCII:                                             *)
(*   "Otmena" = Отмена, "X Otmena" = ❌ Отмена,                               *)
(*   "Sorevnovaniya SHSK" = 🏆 Соревнования ШСК,                             *)
(*   "Dostizheniya detey" = 🌟 Достижения детей,                             *)
(*   "Povtorit otpravku" = Повторить отправку,                              *)
(*   "+ Dobavit foto" = ➕ Добавить фото, "V Otpravit" = ✅ Отправить,        *)
(*   "Gotovo V" = Готово ✅, "Svoy variant" = Свой вариант,                  *)
(*   "Propustit" = Пропустить.                                              *)
(***************************************************************************)
EXTENDS Integers, Sequences, FiniteSets, TLC

\* ------------------------------------------------------------------ bounds

\* Rows the bot_submissions table may hold.
MaxSubmissions == 2
\* Failed delivery attempts recorded on one submission.
MaxAttempts == 2
\* Rows the table can hold while invocations overlap.
MaxConcurrentSubmissions == 1

\* Concurrent invocations of the edge function.
Handlers == {"h1", "h2"}
\* Update ids the transport may deliver again; id 0 stands for an update_id
\* that is delivered exactly once (never seen before, never redelivered).
FreshUpdateId == 0
UpdateIds == {1}
Users == {7}
FirstHandler == "h1"

\* ------------------------------------------------------------- constants

MAX_ACHIEVEMENT_TEXT_LENGTH == 700
\* sendSubmissionToTarget: chunkArray(photos, 10)
MediaGroupSize == 10

\* SQL NULL / JS null / undefined for a text value.
Null == <<"<null>">>

T(s) == <<s>>

TYPE_OPTIONS == {T("SHSL"), T("Svoy variant")}
DISCIPLINE_OPTIONS == {T("Futbol"), T("Propustit")}
GENDER_OPTIONS == {T("Devochki")}
STAGE_OPTIONS == {T("Moskva")}
PHASE_OPTIONS == {T("Gruppy")}

Digits == {"0", "1", "2", "3", "4", "5", "6", "7", "8", "9"}
Whitespace == {" "}

\* ------------------------------------------------------- pure functions

\* String.prototype.trim
RECURSIVE TrimLeft(_)
TrimLeft(s) ==
  IF s # <<>> /\ Head(s) \in Whitespace THEN TrimLeft(Tail(s)) ELSE s

RECURSIVE TrimRight(_)
TrimRight(s) ==
  IF s # <<>> /\ s[Len(s)] \in Whitespace
  THEN TrimRight(SubSeq(s, 1, Len(s) - 1))
  ELSE s

Trim(s) == TrimRight(TrimLeft(s))

\* message.text?.trim()
TrimText(text) == IF text = Null THEN Null ELSE Trim(text)

\* JS falsiness of a string | null | undefined value
Falsy(v) == v = Null \/ v = <<>>

\* /^\d{2}\.\d{2}\.\d{2,4}$/.test(text.trim())
isValidDate(text) ==
  LET s == Trim(text) IN
  /\ Len(s) \in 8..10
  /\ \A i \in {1, 2, 4, 5} : s[i] \in Digits
  /\ s[3] = "." /\ s[6] = "."
  /\ \A i \in 7..Len(s) : s[i] \in Digits

\* Variant: the step derivation without the question for the custom type.
getSubmissionStepWithoutCustomType(submission) ==
  IF submission.kind = "achievement"
  THEN IF Falsy(submission.achievement_text)
       THEN "await_achievement_text"
       ELSE "await_photos"
  ELSE IF Falsy(submission.event_date) THEN "await_date"
  ELSE IF Falsy(submission.event_type) THEN "await_type"
  ELSE IF Falsy(submission.sport) THEN "await_sport"
  ELSE IF Falsy(submission.gender) THEN "await_gender"
  ELSE IF Falsy(submission.stage) THEN "await_stage"
  ELSE IF Falsy(submission.phase) THEN "await_phase"
  ELSE "await_photos"

getSubmissionStep(submission) ==
  IF submission.kind = "achievement"
  THEN IF Falsy(submission.achievement_text)
       THEN "await_achievement_text"
       ELSE "await_photos"
  ELSE IF Falsy(submission.event_date) THEN "await_date"
  ELSE IF Falsy(submission.event_type) THEN "await_type"
  ELSE IF submission.event_type = T("Svoy variant")
          /\ Falsy(submission.custom_event_type) THEN "await_custom_type"
  ELSE IF Falsy(submission.sport) THEN "await_sport"
  ELSE IF Falsy(submission.gender) THEN "await_gender"
  ELSE IF Falsy(submission.stage) THEN "await_stage"
  ELSE IF Falsy(submission.phase) THEN "await_phase"
  ELSE "await_photos"

\* a.file_size ?? 0
NoSize == -1
FileSize(photo) == IF photo.file_size = NoSize THEN 0 ELSE photo.file_size

\* Array.prototype.sort is stable: insertion into an ascending list after the
\* elements that are not larger.
RECURSIVE InsertSorted(_, _)
InsertSorted(p, sorted) ==
  IF sorted = <<>> THEN <<p>>
  ELSE IF FileSize(Head(sorted)) > FileSize(p)
       THEN <<p>> \o sorted
       ELSE <<Head(sorted)>> \o InsertSorted(p, Tail(sorted))

RECURSIVE SortBySize(_)
SortBySize(photos) ==
  IF photos = <<>> THEN <<>>
  ELSE InsertSorted(photos[Len(photos)],
                    SortBySize(SubSeq(photos, 1, Len(photos) - 1)))

\* the null that pickLargestPhoto returns
NoPhoto == [file_id |-> Null, file_unique_id |-> Null, file_size |-> NoSize]

\* Variant: of the variants that share the largest size, the first in the list.
pickFirstLargestPhoto(photos) ==
  IF photos = <<>> THEN NoPhoto
  ELSE photos[CHOOSE i \in 1..Len(photos) :
                /\ \A j \in 1..Len(photos) : FileSize(photos[j]) <= FileSize(photos[i])
                /\ \A j \in 1..(i - 1) : FileSize(photos[j]) < FileSize(photos[i])]

pickLargestPhoto(photos) ==
  IF photos = <<>> THEN NoPhoto
  ELSE LET sorted == SortBySize(photos) IN sorted[Len(sorted)]

getPhotoDedupKey(photo) ==
  IF photo.file_unique_id = Null THEN photo.file_id ELSE photo.file_unique_id

\* value ?? ""
OrEmpty(value) == IF value = Null THEN <<>> ELSE value

\* buildSubmissionHeader: the lines that join("\n") puts together.
buildSubmissionHeader(submission) ==
  IF submission.kind = "achievement"
  THEN <<T("Dostizheniya detey"), OrEmpty(submission.achievement_text), <<>>>>
  ELSE LET eventType ==
             IF submission.event_type = T("Svoy variant")
             THEN OrEmpty(submission.custom_event_type)
             ELSE OrEmpty(submission.event_type)
       IN <<T("["), OrEmpty(submission.event_date), eventType,
            OrEmpty(submission.sport), OrEmpty(submission.gender),
            OrEmpty(submission.stage), OrEmpty(submission.phase), T("]"), <<>>>>

RECURSIVE chunkFrom(_, _, _)
chunkFrom(items, i, size) ==
  IF i >= Len(items) THEN <<>>
  ELSE <<SubSeq(items, i + 1, IF i + size < Len(items) THEN i + size ELSE Len(items))>>
       \o chunkFrom(items, i + size, size)

\* Variant: slices one element too long.
chunkArrayTooLong(items, size) == chunkFrom(items, 0, size + 1)

chunkArray(items, size) == chunkFrom(items, 0, size)

Contains(list, x) == \E i \in 1..Len(list) : list[i] = x

\* ------------------------------------------------------------------ data

\* A row of public.bot_submissions (id 0: no row, the handler's null).
\* A null next_retry_at.
NoTime == -1

NewSubmission(id, userId, kind) ==
  [id |-> id, user_id |-> userId, kind |-> kind,
   event_date |-> Null, event_type |-> Null, custom_event_type |-> Null,
   sport |-> Null, gender |-> Null, stage |-> Null, phase |-> Null,
   achievement_text |-> Null,
   photo_file_ids |-> <<>>, photo_unique_ids |-> <<>>,
   status |-> "collecting", attempts |-> 0, next_retry_at |-> NoTime,
   last_error |-> Null]

NoSubmission == [NewSubmission(0, 0, "none") EXCEPT !.status = "none"]

Photo(fileId, uniqueId, size) ==
  [file_id |-> fileId, file_unique_id |-> uniqueId, file_size |-> size]

\* Inbound photo messages: each a list of resolution variants.
PhotoA == <<Photo(T("f1"), T("u1"), 10)>>
\* the same image sent again: same file_unique_id, another file_id
PhotoB == <<Photo(T("f2"), T("u1"), 10)>>
\* two variants, no file_unique_id, the first one without a size
PhotoC == <<Photo(T("f3s"), Null, NoSize), Photo(T("f3"), Null, 9)>>
PhotoMessages == {PhotoA, PhotoB, PhotoC}

\* Button labels and typed answers the model's user sends.
ControlTexts ==
  {T("/start"), T("/cancel"), T("Otmena"), T("X Otmena"),
   T("Sorevnovaniya SHSK"), T("Dostizheniya detey")}

LabelTexts ==
  {T("Povtorit otpravku"), T("+ Dobavit foto"), T("V Otpravit"), T("Gotovo V"),
   <<"0", "1", ".", "0", "9", ".", "2", "5">>,
   <<"2", "0", "2", "5", "-", "0", "9", "-", "0", "1">>,
   T("SHSL"), T("Svoy variant"), T("Futbol"), T("Propustit"),
   T("Devochki"), T("Moskva"), T("Gruppy")}

FreeTexts == {T("Turnir")}

\* Typed answers at the edges of the checks: blank, and of the longest
\* accepted and the shortest rejected length of an achievement text.
Blank == <<" ", " ">>
Longest == [i \in 1..MAX_ACHIEVEMENT_TEXT_LENGTH |-> "x"]
TooLong == [i \in 1..(MAX_ACHIEVEMENT_TEXT_LENGTH + 1) |-> "x"]
TypedTexts == FreeTexts \cup {Blank, Longest, TooLong}

\* Date candidates, spelled character by character.
DateShortYear == <<"0", "1", ".", "0", "9", ".", "2", "5">>
DateLongYear == <<"0", "1", ".", "0", "9", ".", "2", "0", "2", "5">>
DateThreeDigitYear == <<"0", "1", ".", "0", "9", ".", "2", "0", "2">>
DateOneDigitYear == <<"0", "1", ".", "0", "9", ".", "2">>
DateFiveDigitYear == <<"0", "1", ".", "0", "9", ".", "2", "0", "2", "5", "5">>
DateOneDigitDay == <<"1", ".", "0", "9", ".", "2", "5">>
DateIso == <<"2", "0", "2", "5", "-", "0", "9", "-", "0", "1">>
DateSlashes == <<"0", "1", "/", "0", "9", "/", "2", "5">>
DateLetter == <<"0", "a", ".", "0", "9", ".", "2", "5">>
DatePadded == <<" ">> \o DateShortYear \o <<" ">>
DateTrailing == DateLongYear \o <<"x">>
DateTexts ==
  {DateShortYear, DateLongYear, DateThreeDigitYear, DateOneDigitYear,
   DateFiveDigitYear, DateOneDigitDay, DateIso, DateSlashes, DateLetter,
   DatePadded, DateTrailing}

Texts == ControlTexts \cup LabelTexts \cup FreeTexts

Message(chatType, from, text, photo) ==
  [chat |-> chatType, from |-> from, text |-> text, photo |-> photo]

NoFrom == 0

\* The updates of the sequential dialogue: every text, one photo message, a
\* message from a group chat and one without a sender.
Messages ==
  {Message("private", u, t, <<>>) : u \in Users, t \in Texts}
  \cup {Message("private", u, Null, PhotoC) : u \in Users}
  \cup {Message("group", u, T("/start"), <<>>) : u \in Users}
  \cup {Message("private", NoFrom, T("/start"), <<>>)}

\* The updates of overlapping invocations: the achievement dialogue.
ConcurrentTexts ==
  {T("Dostizheniya detey"), T("Turnir"), T("Gotovo V"), T("V Otpravit")}

ConcurrentMessages ==
  {Message("private", u, t, <<>>) : u \in Users, t \in ConcurrentTexts}
  \cup {Message("private", u, Null, PhotoC) : u \in Users}

\* Steps of a handler that are calls to the store or to the gateway.
Op(op, a, b) == [op |-> op, a |-> a, b |-> b]
SaveOp == Op("updateSubmission", "", "")
MsgOp(text, markup) == Op("sendMessage", text, markup)
CreateOp(kind, userId) == Op("createSubmission", kind, userId)
AppendOp(fileId, uniqueId) == Op("appendSubmissionPhoto", fileId, uniqueId)
\* Variant: a send or retry branch that saves and calls no delivery.
DeliverOpSkipped(branch) == SaveOp

DeliverOp(branch) == Op("sendSubmissionToTarget", branch, "")

\* What one append_submission_photo call was given, found and returned.
\* before: photo_file_ids as read under the row lock; fresh: the row did not
\* hold the dedup key; overlapped: another call was in progress at the commit;
\* waited: another call committed while this one was in progress.
NoRpc ==
  [called |-> FALSE, file_id |-> Null, unique_id |-> Null, before |-> <<>>,
   fresh |-> FALSE, added |-> FALSE, photo_count |-> 0, unchanged |-> FALSE,
   overlapped |-> FALSE, waited |-> FALSE]

VARIABLES
  bot_submissions,  \* the table, in created_at order: row i has id i
  row_lock,         \* per row: the handler holding its row lock, or ""
  tg_updates,       \* the dedup ledger: the update ids inserted
  handler,          \* per invocation: its position and its local variables
  handled,          \* history: per update id, the deliveries that got past dedupeUpdate
  worker,           \* the sending worker: its clock, its position and its batch
  aborted,          \* history: the update ids whose handling ended in the catch block
  prompt            \* the photo prompt of the variant with an editable prompt

vars ==
  <<bot_submissions, row_lock, tg_updates, handler, handled, worker, aborted, prompt>>

\* photos_prompt_message_id: null
NoMessage == 0

\* No prompt is being issued; no prompt message id is stored.
IdlePrompt ==
  [pc |-> "idle", stored |-> NoMessage, photos_prompt_message_id |-> NoMessage,
   before |-> NoMessage, text |-> "", calls |-> <<>>, last_message_id |-> NoMessage]

\* No delivery made by the worker since it last claimed a batch.
NoOutcome == [id |-> 0, outcome |-> "", hint |-> 0, at |-> 0, before |-> NoSubmission,
              notices |-> <<>>]

IdleWorker == [pc |-> "idle", now |-> 0, claimed |-> <<>>, notices |-> <<>>,
               last |-> NoOutcome]

IdleHandler ==
  [pc |-> "idle", update_id |-> FreshUpdateId, duplicate |-> FALSE,
   text |-> Null, photo |-> <<>>, branch |-> "",
   submission |-> NoSubmission, loaded |-> NoSubmission,
   todo |-> <<>>, old_photo_file_ids |-> <<>>, overtaken |-> FALSE, rpc |-> NoRpc,
   batches |-> <<>>, batch_index |-> 0, target_calls |-> <<>>, failed_call |-> "",
   outbound |-> <<>>, writes |-> 0,
   thrown |-> "", admin |-> "", response |-> 0]

Init ==
  /\ bot_submissions = <<>>
  /\ row_lock = <<>>
  /\ tg_updates = {}
  /\ handler = [h \in Handlers |-> IdleHandler]
  /\ handled = [u \in UpdateIds |-> 0]
  /\ worker = IdleWorker
  /\ aborted = {}
  /\ prompt = IdlePrompt

\* ------------------------------------------------------------- the store

\* Variant: a load that does not leave out the delivered submissions.
ActiveStatusesAndSent == {"collecting", "confirming", "failed", "sent"}

ActiveStatuses == {"collecting", "confirming", "failed"}

\* .eq("user_id", userId).in("status", [...]).order("created_at", desc).limit(1)
getActiveSubmission(userId) ==
  LET ids == {i \in 1..Len(bot_submissions) :
                /\ bot_submissions[i].user_id = userId
                /\ bot_submissions[i].status \in ActiveStatuses}
  IN IF ids = {} THEN NoSubmission
     ELSE bot_submissions[CHOOSE i \in ids : \A j \in ids : j <= i]

\* Variant: an UPDATE that leaves the last_error column alone.
updateSubmissionKeepingLastError(row, submission) ==
  [submission EXCEPT !.id = row.id, !.user_id = row.user_id, !.kind = row.kind,
                     !.last_error = row.last_error]

\* The UPDATE of updateSubmission: every column but id, user_id and kind.
updateSubmission(row, submission) ==
  [submission EXCEPT !.id = row.id, !.user_id = row.user_id, !.kind = row.kind,
                     !.next_retry_at = row.next_retry_at]

\* The UPDATE of append_submission_photo, given the photo_file_ids read under
\* the row lock.
appendedFileIds(old_photo_file_ids, p_file_id) ==
  IF Contains(old_photo_file_ids, p_file_id)
  THEN old_photo_file_ids
  ELSE Append(old_photo_file_ids, p_file_id)

appendedUniqueIds(photo_unique_ids, p_unique_id) ==
  IF Contains(photo_unique_ids, p_unique_id)
  THEN photo_unique_ids
  ELSE Append(photo_unique_ids, p_unique_id)

\* returning ..., not (old_photo_file_ids ? p_file_id)
appendAdded(old_photo_file_ids, p_file_id) ==
  ~Contains(old_photo_file_ids, p_file_id)

\* ------------------------------------------------------ the dialogue

\* branch names the branch of handleMessage that was taken.
Plan(branch, submission, todo) ==
  [branch |-> branch, submission |-> submission, todo |-> todo]

\* Variant: the control branches without the save of the active submission.
forceNothing(branch, submission, reason, after) == Plan(branch, submission, after)

\* The four cancel branches and the two menu branches of handleMessage.
forceFailed(branch, submission, reason, after) ==
  IF submission.id # 0
  THEN Plan(branch, [submission EXCEPT !.status = "failed", !.last_error = T(reason)],
            <<SaveOp>> \o after)
  ELSE Plan(branch, submission, after)

\* handleIncomingPhoto: the store call it makes (none when it returns false).
handleIncomingPhoto(message) ==
  IF message.photo = <<>> THEN <<>>
  ELSE LET photo == pickLargestPhoto(message.photo)
       IN IF photo = NoPhoto THEN <<>>
          ELSE <<AppendOp(photo.file_id, getPhotoDedupKey(photo))>>

\* Variant: a question step that stores the answer before checking it.
answerStepSavingInvalid(submission, ok, answered, badPrompt, nextPrompt, nextMarkup) ==
  IF ~ok THEN Plan("invalid", answered, <<SaveOp, MsgOp(badPrompt, "none")>>)
  ELSE Plan("answer", answered, <<SaveOp, MsgOp(nextPrompt, nextMarkup)>>)

\* Variant: a question step that saves the row and sends nothing when the
\* answer fails its check.
answerStepSilent(submission, ok, answered, badPrompt, nextPrompt, nextMarkup) ==
  IF ~ok THEN Plan("invalid", submission, <<SaveOp>>)
  ELSE Plan("answer", answered, <<SaveOp, MsgOp(nextPrompt, nextMarkup)>>)

\* One question step: the check of the answer, the field it sets, the prompts.
answerStep(submission, ok, answered, badPrompt, nextPrompt, nextMarkup) ==
  IF ~ok THEN Plan("invalid", submission, <<MsgOp(badPrompt, "none")>>)
  ELSE Plan("answer", answered, <<SaveOp, MsgOp(nextPrompt, nextMarkup)>>)

\* Variant: the done button without the check of the photo list.
donePressedUnchecked(submission) ==
  Plan("done", [submission EXCEPT !.status = "confirming"],
       <<SaveOp, MsgOp("photos_accepted", "CONFIRM_ACTIONS_KEYBOARD")>>)

\* Step await_photos, the done button.
donePressed(submission) ==
  IF Len(submission.photo_file_ids) = 0
  THEN Plan("done_empty", submission,
            <<MsgOp("no_photos_yet", "PHOTO_ACTIONS_KEYBOARD")>>)
  ELSE Plan("done", [submission EXCEPT !.status = "confirming"],
            <<SaveOp, MsgOp("photos_accepted", "CONFIRM_ACTIONS_KEYBOARD")>>)

collectingStep(submission, message, text) ==
  LET step == getSubmissionStep(submission) IN
  CASE step = "await_achievement_text" ->
         IF Falsy(text)
         THEN Plan("invalid", submission, <<MsgOp("achievement_empty", "none")>>)
         ELSE IF Len(text) > MAX_ACHIEVEMENT_TEXT_LENGTH
         THEN Plan("invalid", submission, <<MsgOp("achievement_too_long", "none")>>)
         ELSE Plan("answer", [submission EXCEPT !.achievement_text = text],
                   <<SaveOp, MsgOp("recommend_photos", "PHOTO_ACTIONS_KEYBOARD")>>)
    [] step = "await_date" ->
         answerStep(submission, ~Falsy(text) /\ isValidDate(text),
                    [submission EXCEPT !.event_date = text],
                    "bad_date", "choose_type", "TYPE_OPTIONS")
    [] step = "await_type" ->
         IF Falsy(text) \/ text \notin TYPE_OPTIONS
         THEN Plan("invalid", submission, <<MsgOp("bad_type", "none")>>)
         ELSE IF text = T("Svoy variant")
         THEN Plan("answer",
                   [submission EXCEPT !.event_type = text, !.custom_event_type = Null],
                   <<SaveOp, MsgOp("enter_custom_type", "none")>>)
         ELSE Plan("answer", [submission EXCEPT !.event_type = text, !.custom_event_type = Null],
                   <<SaveOp, MsgOp("choose_discipline", "DISCIPLINE_OPTIONS")>>)
    [] step = "await_custom_type" ->
         answerStep(submission, ~Falsy(text),
                    [submission EXCEPT !.custom_event_type = text],
                    "enter_custom_type_text", "choose_discipline", "DISCIPLINE_OPTIONS")
    [] step = "await_sport" ->
         answerStep(submission, ~Falsy(text) /\ text \in DISCIPLINE_OPTIONS,
                    [submission EXCEPT
                       !.sport = IF text = T("Propustit") THEN Null ELSE text],
                    "bad_discipline", "choose_category", "GENDER_OPTIONS")
    [] step = "await_gender" ->
         answerStep(submission, ~Falsy(text) /\ text \in GENDER_OPTIONS,
                    [submission EXCEPT !.gender = text],
                    "bad_category", "choose_stage", "STAGE_OPTIONS")
    [] step = "await_stage" ->
         answerStep(submission, ~Falsy(text) /\ text \in STAGE_OPTIONS,
                    [submission EXCEPT !.stage = text],
                    "bad_stage", "choose_phase", "PHASE_OPTIONS")
    [] step = "await_phase" ->
         answerStep(submission, ~Falsy(text) /\ text \in PHASE_OPTIONS,
                    [submission EXCEPT !.phase = text],
                    "bad_phase", "recommend_photos", "PHOTO_ACTIONS_KEYBOARD")
    [] step = "await_photos" ->
         IF text = T("Gotovo V")
         THEN donePressed(submission)
         ELSE IF handleIncomingPhoto(message) # <<>>
         THEN Plan("photo", submission, handleIncomingPhoto(message))
         ELSE Plan("reprompt", submission, <<MsgOp("awaiting_photos", "none")>>)

\* handleMessage after getActiveSubmission: the in-memory submission as the
\* branch leaves it and the calls the branch makes, in order.
handleMessage(message, submission) ==
  LET text == TrimText(message.text) IN
  IF text = T("/start")
  THEN forceFailed("/start", submission, "cancelled_by_user",
                   <<MsgOp("greeting", "START_KEYBOARD")>>)
  ELSE IF text = T("/cancel")
  THEN forceFailed("/cancel", submission, "cancelled_by_user",
                   <<MsgOp("dialog_reset", "START_KEYBOARD")>>)
  ELSE IF text = T("Otmena")
  THEN forceFailed("cancel", submission, "cancelled_by_user",
                   <<MsgOp("cancelled", "START_KEYBOARD")>>)
  ELSE IF text = T("X Otmena")
  THEN forceFailed("cancel", submission, "cancelled_by_user",
                   <<MsgOp("cancelled", "START_KEYBOARD")>>)
  ELSE IF text = T("Sorevnovaniya SHSK")
  THEN forceFailed("menu", submission, "restart_by_user",
                   <<CreateOp("competition", message.from), MsgOp("enter_date", "none")>>)
  ELSE IF text = T("Dostizheniya detey")
  THEN forceFailed("menu", submission, "restart_by_user",
                   <<CreateOp("achievement", message.from),
                     MsgOp("describe_achievement", "none")>>)
  ELSE IF submission.id = 0
  THEN Plan("reprompt", submission, <<MsgOp("choose_scenario", "START_KEYBOARD")>>)
  ELSE IF submission.status = "failed"
  THEN IF text = T("Povtorit otpravku")
       THEN IF Len(submission.photo_file_ids) = 0
            THEN Plan("retry_empty", [submission EXCEPT !.status = "collecting"],
                      <<MsgOp("no_photos_to_send", "PHOTO_ACTIONS_KEYBOARD"), SaveOp>>)
            ELSE Plan("retry", submission, <<DeliverOp("retry")>>)
       ELSE IF handleIncomingPhoto(message) # <<>>
       THEN Plan("failed_photo", [submission EXCEPT !.status = "collecting"],
                 handleIncomingPhoto(message) \o <<SaveOp>>)
       ELSE Plan("reprompt", submission,
                 <<MsgOp("last_delivery_failed", "RETRY_ACTIONS_KEYBOARD")>>)
  ELSE IF submission.status = "confirming"
  THEN IF text = T("+ Dobavit foto")
       THEN Plan("add_more", [submission EXCEPT !.status = "collecting"],
                 <<SaveOp, MsgOp("add_photos", "PHOTO_ACTIONS_KEYBOARD")>>)
       ELSE IF text = T("V Otpravit")
       THEN Plan("send", submission, <<DeliverOp("confirm")>>)
       ELSE Plan("reprompt", submission,
                 <<MsgOp("choose_action", "CONFIRM_ACTIONS_KEYBOARD")>>)
  ELSE IF submission.status # "collecting"
  THEN Plan("reprompt", submission, <<MsgOp("choose_scenario", "START_KEYBOARD")>>)
  ELSE collectingStep(submission, message, text)

\* ------------------------------------------------------------- the actions

IsMenu(message) ==
  /\ message.chat = "private" /\ message.from # NoFrom
  /\ TrimText(message.text) \in {T("Sorevnovaniya SHSK"), T("Dostizheniya detey")}

\* Invocations that will still insert a row.
PendingCreates ==
  Cardinality({h \in Handlers :
    \E i \in 1..Len(handler[h].todo) : handler[h].todo[i].op = "createSubmission"})

\* The user is at a question whose answer is free text.
AtFreeTextStep(userId) ==
  LET submission == getActiveSubmission(userId) IN
  /\ submission.id # 0
  /\ submission.status = "collecting"
  /\ getSubmissionStep(submission) \in {"await_achievement_text", "await_custom_type"}

\* The transport delivers an update only while the model's bounds leave room
\* for what its handler will do: a menu button while a row can still be
\* inserted, and at a free-text question a typed text rather than a label or a
\* date (the code would store those as the answer all the same).
Deliverable(message, concurrent) ==
  /\ IsMenu(message) =>
       Len(bot_submissions) + PendingCreates
         < (IF concurrent THEN MaxConcurrentSubmissions ELSE MaxSubmissions)
  /\ AtFreeTextStep(message.from) =>
       message.text \in ControlTexts \cup TypedTexts \cup {Null}

\* The handler moves past the call at the head of its list.
Advance(slot) ==
  [slot EXCEPT !.todo = Tail(@),
               !.pc = IF Len(slot.todo) = 1 THEN "done" ELSE "run"]

NextOp(h, op) ==
  /\ handler[h].pc = "run"
  /\ handler[h].todo # <<>>
  /\ Head(handler[h].todo).op = op

\* Variant: a ledger without the primary key (no insert ever conflicts).
dedupeNever(updateId) == FALSE

\* dedupeUpdate: the insert into tg_updates; error code 23505 is the duplicate.
dedupeUpdate(updateId) == updateId \in tg_updates

\* serve: dedupeUpdate, then handleMessage up to the first call after
\* getActiveSubmission.
\* Variant: a handler that takes a message from any chat and any sender.
DispatchAnyChat(h, updateId, message) ==
  /\ handler[h].pc = "idle"
  /\ IF dedupeUpdate(updateId)
     THEN /\ handler' = [handler EXCEPT ![h] =
                  [IdleHandler EXCEPT !.pc = "done", !.update_id = updateId,
                                      !.duplicate = TRUE]]
          /\ UNCHANGED <<tg_updates, handled, worker, aborted, prompt>>
     ELSE /\ tg_updates' = tg_updates \cup ({updateId} \cap UpdateIds)
          /\ handled' = [u \in UpdateIds |->
                           IF u = updateId THEN handled[u] + 1 ELSE handled[u]]
          /\ LET submission == getActiveSubmission(message.from)
                 plan == handleMessage(message, submission)
             IN handler' = [handler EXCEPT ![h] =
                    [IdleHandler EXCEPT !.pc = "run", !.update_id = updateId,
                                        !.text = message.text,
                                        !.photo = message.photo,
                                        !.branch =
                                          IF message.chat # "private"
                                             \/ message.from = NoFrom
                                          THEN "ignored" ELSE plan.branch,
                                        !.loaded = submission,
                                        !.submission = plan.submission,
                                        !.todo = plan.todo]]
  /\ UNCHANGED <<bot_submissions, row_lock, worker, aborted, prompt>>

Dispatch(h, updateId, message) ==
  /\ handler[h].pc = "idle"
  /\ IF dedupeUpdate(updateId)
     THEN /\ handler' = [handler EXCEPT ![h] =
                  [IdleHandler EXCEPT !.pc = "done", !.update_id = updateId,
                                      !.duplicate = TRUE]]
          /\ UNCHANGED <<tg_updates, handled, worker, aborted, prompt>>
     ELSE /\ tg_updates' = tg_updates \cup ({updateId} \cap UpdateIds)
          /\ handled' = [u \in UpdateIds |->
                           IF u = updateId THEN handled[u] + 1 ELSE handled[u]]
          /\ IF message.chat # "private" \/ message.from = NoFrom
             THEN handler' = [handler EXCEPT ![h] =
                                [IdleHandler EXCEPT !.pc = "done", !.update_id = updateId,
                                                    !.branch = "ignored"]]
             ELSE LET submission == getActiveSubmission(message.from)
                      plan == handleMessage(message, submission)
                  IN handler' = [handler EXCEPT ![h] =
                         [IdleHandler EXCEPT !.pc = "run", !.update_id = updateId,
                                             !.text = message.text,
                                             !.photo = message.photo,
                                             !.branch = plan.branch,
                                             !.loaded = submission,
                                             !.submission = plan.submission,
                                             !.todo = plan.todo]]
  /\ UNCHANGED <<bot_submissions, row_lock, worker, aborted, prompt>>

\* An update arrives and its invocation starts: at any time when invocations
\* overlap, otherwise when the previous one has answered.
Serve(h, updateId, message, concurrent) ==
  /\ concurrent \/ (h = FirstHandler /\ \A g \in Handlers : handler[g].pc = "idle")
  /\ Deliverable(message, concurrent)
  /\ Dispatch(h, updateId, message)

\* Variant: a plain select, which does not wait for the row lock.
rowLockIgnored(id) == TRUE

\* A row lock taken by "select ... for update" makes every other writer wait.
rowLockFree(id) == row_lock[id] = ""

UpdateSubmission(h) ==
  LET slot == handler[h]
      id == slot.submission.id
  IN
  /\ NextOp(h, "updateSubmission")
  /\ rowLockFree(id)
  /\ bot_submissions' =
       [bot_submissions EXCEPT ![id] = updateSubmission(@, slot.submission)]
  /\ handler' = [handler EXCEPT ![h] = [Advance(slot) EXCEPT !.writes = @ + 1]]
  /\ UNCHANGED <<row_lock, tg_updates, handled, worker, aborted, prompt>>

\* Variant: an insert that stores the new row twice.
CreateSubmissionTwice(h) ==
  LET slot == handler[h]
      op == Head(slot.todo)
      row == NewSubmission(Len(bot_submissions) + 1, op.b, op.a)
  IN
  /\ NextOp(h, "createSubmission")
  /\ bot_submissions' =
       bot_submissions \o <<row, [row EXCEPT !.id = Len(bot_submissions) + 2]>>
  /\ row_lock' = row_lock \o <<"", "">>
  /\ handler' = [handler EXCEPT ![h] = [Advance(slot) EXCEPT !.writes = @ + 1]]
  /\ UNCHANGED <<tg_updates, handled, worker, aborted, prompt>>

CreateSubmission(h) ==
  LET slot == handler[h]
      op == Head(slot.todo)
  IN
  /\ NextOp(h, "createSubmission")
  /\ bot_submissions' =
       Append(bot_submissions,
              NewSubmission(Len(bot_submissions) + 1, op.b, op.a))
  /\ row_lock' = Append(row_lock, "")
  /\ handler' = [handler EXCEPT ![h] = [Advance(slot) EXCEPT !.writes = @ + 1]]
  /\ UNCHANGED <<tg_updates, handled, worker, aborted, prompt>>

SendMessage(h) ==
  LET slot == handler[h]
      op == Head(slot.todo)
  IN
  /\ NextOp(h, "sendMessage")
  /\ handler' = [handler EXCEPT ![h] =
       [Advance(slot) EXCEPT !.outbound = Append(@, [text |-> op.a, markup |-> op.b])]]
  /\ UNCHANGED <<bot_submissions, row_lock, tg_updates, handled, worker, aborted, prompt>>

\* The invocation has called append_submission_photo and has no result yet.
Appending(h) == handler[h].pc = "rpc" \/ NextOp(h, "appendSubmissionPhoto")

\* append_submission_photo: select ... for update
AppendSelectForUpdate(h) ==
  LET slot == handler[h]
      id == slot.submission.id
  IN
  /\ NextOp(h, "appendSubmissionPhoto")
  /\ rowLockFree(id)
  /\ row_lock' = [row_lock EXCEPT ![id] = h]
  /\ handler' = [handler EXCEPT ![h] =
       [slot EXCEPT !.pc = "rpc",
                    !.old_photo_file_ids = bot_submissions[id].photo_file_ids]]
  /\ UNCHANGED <<bot_submissions, tg_updates, handled, worker, aborted, prompt>>

\* append_submission_photo: update ... returning, and the commit
AppendUpdate(h) ==
  LET slot == handler[h]
      id == slot.submission.id
      op == Head(slot.todo)
      row == bot_submissions[id]
      updated == [row EXCEPT
                    !.photo_file_ids = appendedFileIds(slot.old_photo_file_ids, op.a),
                    !.photo_unique_ids = appendedUniqueIds(row.photo_unique_ids, op.b)]
      result == [called |-> TRUE, file_id |-> op.a, unique_id |-> op.b,
                 before |-> slot.old_photo_file_ids,
                 fresh |-> ~Contains(row.photo_unique_ids, op.b),
                 added |-> appendAdded(slot.old_photo_file_ids, op.a),
                 photo_count |-> Len(updated.photo_file_ids),
                 unchanged |-> (updated = row),
                 overlapped |-> \E g \in Handlers \ {h} : Appending(g),
                 waited |-> slot.overtaken]
  IN
  /\ slot.pc = "rpc"
  /\ bot_submissions' = [bot_submissions EXCEPT ![id] = updated]
  /\ row_lock' = [row_lock EXCEPT ![id] = ""]
  /\ handler' = [g \in Handlers |->
       IF g = h
       THEN [Advance(slot) EXCEPT !.rpc = result,
                                  !.old_photo_file_ids = <<>>,
                                  !.overtaken = FALSE,
                                  !.writes = @ + 1]
       ELSE [handler[g] EXCEPT !.overtaken = @ \/ Appending(g)]]
  /\ UNCHANGED <<tg_updates, handled, worker, aborted, prompt>>

\* Variant: the try block without "submission.last_error = null".
deliverySucceededKeepingError(slot) ==
  [slot EXCEPT !.pc = "run",
               !.submission = [@ EXCEPT !.status = "sent"],
               !.todo = <<SaveOp, MsgOp("delivered", "START_KEYBOARD")>>]

\* sendSubmissionToTarget returned: the try block's tail.
deliverySucceeded(slot) ==
  [slot EXCEPT !.pc = "run",
               !.submission = [@ EXCEPT !.status = "sent", !.last_error = Null],
               !.todo = <<SaveOp, MsgOp("delivered", "START_KEYBOARD")>>]

\* callTelegram: throw new Error(`Telegram API error (${method}): ...`)
ErrorText(method) == <<"Telegram API error (", method, ")">>

\* Variant: the catch block without "submission.attempts += 1".
deliveryFailedUncounted(slot, method) ==
  LET branch == Head(slot.todo).a IN
  [slot EXCEPT !.pc = "run", !.failed_call = method,
               !.submission =
                  [@ EXCEPT !.status = IF branch = "confirm" THEN "failed" ELSE @,
                            !.last_error = ErrorText(method)],
               !.todo = <<SaveOp,
                          MsgOp(IF branch = "confirm" THEN "delivery_failed"
                                ELSE "delivery_failed_check",
                                "RETRY_ACTIONS_KEYBOARD")>>]

\* Variant: a failed header call is noted and the photo batches are sent all
\* the same.
deliveryFailedContinuing(slot, method) ==
  IF method = "sendMessage" /\ slot.batches # <<>>
  THEN [slot EXCEPT !.pc = "sendMediaGroup", !.failed_call = method]
  ELSE deliveryFailedUncounted(slot, method)

\* callTelegram threw: the catch block of the branch.
deliveryFailed(slot, method) ==
  LET branch == Head(slot.todo).a IN
  [slot EXCEPT !.pc = "run", !.failed_call = method,
               !.submission =
                  [@ EXCEPT !.status = IF branch = "confirm" THEN "failed" ELSE @,
                            !.attempts = @ + 1,
                            !.last_error = ErrorText(method)],
               !.todo = <<SaveOp,
                          MsgOp(IF branch = "confirm" THEN "delivery_failed"
                                ELSE "delivery_failed_check",
                                "RETRY_ACTIONS_KEYBOARD")>>]

\* The gateway may fail a delivery call while the attempts counter is below
\* the model's bound.
MayFail(slot) == slot.submission.attempts < MaxAttempts

\* sendSubmissionToTarget: the header message to the target chat.
SendHeader(h) ==
  LET slot == handler[h]
      batches == chunkArray(slot.submission.photo_file_ids, MediaGroupSize)
      sent == [slot EXCEPT !.batches = batches, !.batch_index = 0,
                           !.target_calls = <<[method |-> "sendMessage", media |-> <<>>,
                                              text |-> buildSubmissionHeader(slot.submission)]>>]
  IN
  /\ NextOp(h, "sendSubmissionToTarget")
  /\ \/ handler' = [handler EXCEPT ![h] =
          IF batches = <<>> THEN deliverySucceeded(sent)
          ELSE [sent EXCEPT !.pc = "sendMediaGroup"]]
     \/ /\ MayFail(slot)
        /\ handler' = [handler EXCEPT ![h] =
             deliveryFailed(sent, "sendMessage")]
  /\ UNCHANGED <<bot_submissions, row_lock, tg_updates, handled, worker, aborted, prompt>>

\* sendSubmissionToTarget: one sendMediaGroup call of the loop.
SendMediaGroup(h) ==
  LET slot == handler[h]
      i == slot.batch_index
      called == [slot EXCEPT !.batch_index = i + 1,
                   !.target_calls = Append(@, [method |-> "sendMediaGroup",
                                               media |-> slot.batches[i + 1],
                                               text |-> <<>>])]
  IN
  /\ slot.pc = "sendMediaGroup"
  /\ \/ handler' = [handler EXCEPT ![h] =
          IF i + 1 = Len(slot.batches) THEN deliverySucceeded(called) ELSE called]
     \/ /\ MayFail(slot)
        /\ handler' = [handler EXCEPT ![h] =
             deliveryFailed(called, "sendMediaGroup")]
  /\ UNCHANGED <<bot_submissions, row_lock, tg_updates, handled, worker, aborted, prompt>>

\* Variant: a handler that answers an internal error with status 500.
RespondWithErrorStatus(h) ==
  /\ handler[h].pc = "done"
  /\ handler' = [handler EXCEPT ![h] =
       [IdleHandler EXCEPT !.thrown = handler[h].thrown, !.admin = handler[h].admin,
                           !.response = IF handler[h].thrown = "" THEN 200 ELSE 500]]
  /\ UNCHANGED <<bot_submissions, row_lock, tg_updates, handled, worker, aborted, prompt>>

\* serve: return new Response("ok", { status: 200 }); the slot keeps the
\* status it answered with, the error it caught and the outcome of the report.
Respond(h) ==
  /\ handler[h].pc = "done"
  /\ handler' = [handler EXCEPT ![h] =
       [IdleHandler EXCEPT !.thrown = handler[h].thrown, !.admin = handler[h].admin,
                           !.response = 200]]
  /\ UNCHANGED <<bot_submissions, row_lock, tg_updates, handled, worker, aborted, prompt>>

Step(h) ==
  \/ UpdateSubmission(h)
  \/ CreateSubmission(h)
  \/ SendMessage(h)
  \/ AppendSelectForUpdate(h)
  \/ AppendUpdate(h)
  \/ SendHeader(h)
  \/ SendMediaGroup(h)
  \/ Respond(h)

Deliveries == (UpdateIds \cup {FreshUpdateId}) \X ConcurrentMessages
SeqDeliveries == {FreshUpdateId} \X Messages

\* Invocations overlap: an update may arrive while another is being handled.
Next ==
  \/ \E h \in Handlers, d \in Deliveries : Serve(h, d[1], d[2], TRUE)
  \/ \E h \in Handlers : Step(h)

\* Each update is handled to completion before the next one arrives.
NextSeq ==
  \/ \E h \in Handlers, d \in SeqDeliveries : Serve(h, d[1], d[2], FALSE)
  \/ \E h \in Handlers : Step(h)

Spec == Init /\ [][Next]_vars

SpecSeq == Init /\ [][NextSeq]_vars

\* ------------------------------------------- the photo collection alone

\* An achievement submission whose text was given: the step is await_photos.
AwaitingPhotos(userId) ==
  [NewSubmission(1, userId, "achievement") EXCEPT !.achievement_text = T("Turnir")]

InitAppend ==
  /\ \E u \in Users : bot_submissions = <<AwaitingPhotos(u)>>
  /\ row_lock = <<"">>
  /\ tg_updates = {}
  /\ handler = [h \in Handlers |-> IdleHandler]
  /\ handled = [u \in UpdateIds |-> 0]
  /\ worker = IdleWorker
  /\ aborted = {}
  /\ prompt = IdlePrompt

\* Photo messages arrive while others are being handled; nothing else does.
NextAppend ==
  \/ \E h \in Handlers, u \in Users, p \in PhotoMessages :
       Serve(h, FreshUpdateId, Message("private", u, Null, p), TRUE)
  \/ \E h \in Handlers : AppendSelectForUpdate(h)
  \/ \E h \in Handlers : AppendUpdate(h)
  \/ \E h \in Handlers : Respond(h)

SpecAppend == InitAppend /\ [][NextAppend]_vars

\* ------------------------------------------------ the choice of a variant

\* Resolution variants in one photo message.
MaxVariants == 3

\* The sizes a variant may carry (NoSize: the message gives none).
FileSizes == {NoSize, 0, 5, 9}

\* Photo messages of up to MaxVariants variants, the i-th with file_id i.
VariantLists ==
  UNION {{[i \in 1..n |-> Photo(T(ToString(i)), Null, sizes[i])] :
            sizes \in [1..n -> FileSizes]} : n \in 1..MaxVariants}

\* Photo messages arrive one after another at the photo step.
NextPick ==
  \/ \E u \in Users, p \in VariantLists :
       Serve(FirstHandler, FreshUpdateId, Message("private", u, Null, p), FALSE)
  \/ AppendSelectForUpdate(FirstHandler)
  \/ AppendUpdate(FirstHandler)
  \/ Respond(FirstHandler)

SpecPick == InitAppend /\ [][NextPick]_vars

\* ---------------------------------------------------- the delivery alone

\* Photos a submission holds when its delivery starts.
MaxPhotos == 24

FileIds(n) == [i \in 1..n |-> T(ToString(i))]

\* A submission at the confirmation step holding n photos.
Confirming(userId, n) ==
  [AwaitingPhotos(userId) EXCEPT !.status = "confirming",
                                 !.photo_file_ids = FileIds(n),
                                 !.photo_unique_ids = FileIds(n)]

InitDeliver ==
  /\ \E u \in Users, n \in 1..MaxPhotos : bot_submissions = <<Confirming(u, n)>>
  /\ row_lock = <<"">>
  /\ tg_updates = {}
  /\ handler = [h \in Handlers |-> IdleHandler]
  /\ handled = [u \in UpdateIds |-> 0]
  /\ worker = IdleWorker
  /\ aborted = {}
  /\ prompt = IdlePrompt

DeliverTexts == {T("V Otpravit"), T("Povtorit otpravku")}

\* The user presses the send and retry buttons, one update at a time.
NextDeliver ==
  \/ \E h \in Handlers, u \in Users, t \in DeliverTexts :
       Serve(h, FreshUpdateId, Message("private", u, t, <<>>), FALSE)
  \/ \E h \in Handlers : SendHeader(h)
  \/ \E h \in Handlers : SendMediaGroup(h)
  \/ \E h \in Handlers : UpdateSubmission(h)
  \/ \E h \in Handlers : SendMessage(h)
  \/ \E h \in Handlers : Respond(h)

SpecDeliver == InitDeliver /\ [][NextDeliver]_vars

\* -------------------------------------------------- the questions alone

\* The answers the user gives to the questions: option labels, date
\* candidates and typed texts.
StepTexts ==
  TYPE_OPTIONS \cup DISCIPLINE_OPTIONS \cup GENDER_OPTIONS \cup STAGE_OPTIONS
    \cup PHASE_OPTIONS \cup DateTexts \cup TypedTexts

\* A submission as the menu selection created it.
InitStep ==
  /\ \E u \in Users, kind \in {"competition", "achievement"} :
       bot_submissions = <<NewSubmission(1, u, kind)>>
  /\ row_lock = <<"">>
  /\ tg_updates = {}
  /\ handler = [h \in Handlers |-> IdleHandler]
  /\ handled = [u \in UpdateIds |-> 0]
  /\ worker = IdleWorker
  /\ aborted = {}
  /\ prompt = IdlePrompt

\* The user answers, one update at a time; a photo message has no text.
NextStep ==
  \/ \E h \in Handlers, u \in Users, t \in StepTexts \cup {Null} :
       Serve(h, FreshUpdateId,
             Message("private", u, t, IF t = Null THEN PhotoC ELSE <<>>), FALSE)
  \/ \E h \in Handlers : UpdateSubmission(h)
  \/ \E h \in Handlers : SendMessage(h)
  \/ \E h \in Handlers : AppendSelectForUpdate(h)
  \/ \E h \in Handlers : AppendUpdate(h)
  \/ \E h \in Handlers : Respond(h)

SpecStep == InitStep /\ [][NextStep]_vars

\* ------------------------------------------------- the failing requests

\* serve: the catch block is entered with the error thrown; the calls that
\* were to follow are not made.
Catch(slot, error) == [slot EXCEPT !.pc = "catch", !.thrown = error, !.todo = <<>>]

\* Variant: a catch block that takes the update's record back.
ledgerAfterErrorForgetting(updateId) == tg_updates \ {updateId}

\* serve: the catch block leaves the update's record in the ledger.
ledgerAfterError(updateId) == tg_updates

\* The handling of an update whose id is tracked ended in the catch block.
Aborted(updateId) == aborted \cup ({updateId} \cap UpdateIds)

\* A request starts when no other is being handled.
MayStart(h) == h = FirstHandler /\ \A g \in Handlers : handler[g].pc = "idle"

\* serve: req.json() rejects the body.
BodyParseFails(h) ==
  /\ MayStart(h)
  /\ handler' = [handler EXCEPT ![h] = Catch(IdleHandler, "body")]
  /\ UNCHANGED <<bot_submissions, row_lock, tg_updates, handled, worker, aborted, prompt>>

\* dedupeUpdate: the insert fails with an error other than 23505.
DedupeFails(h) ==
  /\ MayStart(h)
  /\ handler' = [handler EXCEPT ![h] = Catch(IdleHandler, "Failed to insert update_id")]
  /\ UNCHANGED <<bot_submissions, row_lock, tg_updates, handled, worker, aborted, prompt>>

\* getActiveSubmission: the select fails, after the update was recorded.
LoadFails(h, updateId, message) ==
  /\ MayStart(h)
  /\ ~dedupeUpdate(updateId)
  /\ message.chat = "private" /\ message.from # NoFrom
  /\ handler' = [handler EXCEPT ![h] =
       Catch([IdleHandler EXCEPT !.update_id = updateId, !.text = message.text],
             "Failed to load submission")]
  /\ tg_updates' = ledgerAfterError(updateId) \cup ({updateId} \cap UpdateIds)
  /\ handled' = [u \in UpdateIds |->
                   IF u = updateId THEN handled[u] + 1 ELSE handled[u]]
  /\ aborted' = Aborted(updateId)
  /\ UNCHANGED <<bot_submissions, row_lock, worker, prompt>>

StoreOps == {"updateSubmission", "createSubmission", "appendSubmissionPhoto"}

ThrownBy(op) ==
  CASE op = "updateSubmission" -> "Failed to save submission"
    [] op = "createSubmission" -> "Failed to create submission"
    [] op = "appendSubmissionPhoto" -> "Failed to append photo"
    [] OTHER -> "Telegram API error"

\* updateSubmission, createSubmission, appendSubmissionPhoto: the store
\* answers the call with an error.
StoreCallFails(h) ==
  /\ \E op \in StoreOps : NextOp(h, op)
  /\ handler' = [handler EXCEPT ![h] = Catch(@, ThrownBy(Head(handler[h].todo).op))]
  /\ tg_updates' = ledgerAfterError(handler[h].update_id)
  /\ aborted' = Aborted(handler[h].update_id)
  /\ UNCHANGED <<bot_submissions, row_lock, handled, worker, prompt>>

\* callTelegram: the gateway answers a message to the user with an error.
GatewayCallFails(h) ==
  /\ NextOp(h, "sendMessage")
  /\ handler' = [handler EXCEPT ![h] = Catch(@, ThrownBy("sendMessage"))]
  /\ tg_updates' = ledgerAfterError(handler[h].update_id)
  /\ aborted' = Aborted(handler[h].update_id)
  /\ UNCHANGED <<bot_submissions, row_lock, handled, worker, prompt>>

\* notifyAdminError: the report to the target chat is sent, or its failure
\* is caught and logged.
notifyAdminError(h) ==
  /\ handler[h].pc = "catch"
  /\ \E outcome \in {"sent", "failed"} :
       handler' = [handler EXCEPT ![h] = [@ EXCEPT !.pc = "done", !.admin = outcome]]
  /\ UNCHANGED <<bot_submissions, row_lock, tg_updates, handled, worker, aborted, prompt>>

\* Messages from a group chat and messages without a sender.
IgnoredMessages ==
  {Message("group", u, T("Dostizheniya detey"), <<>>) : u \in Users}
  \cup {Message("private", NoFrom, T("Dostizheniya detey"), <<>>)}

ServeDeliveries ==
  (UpdateIds \cup {FreshUpdateId}) \X (ConcurrentMessages \cup IgnoredMessages)

\* Requests handled one at a time, any call of which may fail.
NextServe ==
  \/ \E h \in Handlers, d \in ServeDeliveries : Serve(h, d[1], d[2], FALSE)
  \/ \E h \in Handlers : BodyParseFails(h)
  \/ \E h \in Handlers : DedupeFails(h)
  \/ \E h \in Handlers, d \in ServeDeliveries : LoadFails(h, d[1], d[2])
  \/ \E h \in Handlers : StoreCallFails(h)
  \/ \E h \in Handlers : GatewayCallFails(h)
  \/ \E h \in Handlers : notifyAdminError(h)
  \/ \E h \in Handlers : Step(h)

SpecServe == Init /\ [][NextServe]_vars

\* ------------------------------------------- photos between other updates

\* A submission that holds one photo: waiting for more, at the confirmation
\* step, or after a failed delivery.
InitRace ==
  /\ \E u \in Users, status \in {"collecting", "confirming", "failed"} :
       bot_submissions = <<[Confirming(u, 1) EXCEPT !.status = status]>>
  /\ row_lock = <<"">>
  /\ tg_updates = {}
  /\ handler = [h \in Handlers |-> IdleHandler]
  /\ handled = [u \in UpdateIds |-> 0]
  /\ worker = IdleWorker
  /\ aborted = {}
  /\ prompt = IdlePrompt

RaceTexts == {T("Gotovo V"), T("+ Dobavit foto"), T("Otmena")}

RaceMessages ==
  {Message("private", u, t, <<>>) : u \in Users, t \in RaceTexts}
  \cup {Message("private", u, Null, PhotoC) : u \in Users}

\* A photo and the buttons arrive while other updates are being handled.
NextRace ==
  \/ \E h \in Handlers, m \in RaceMessages : Serve(h, FreshUpdateId, m, TRUE)
  \/ \E h \in Handlers : UpdateSubmission(h)
  \/ \E h \in Handlers : SendMessage(h)
  \/ \E h \in Handlers : AppendSelectForUpdate(h)
  \/ \E h \in Handlers : AppendUpdate(h)
  \/ \E h \in Handlers : Respond(h)

SpecRace == InitRace /\ [][NextRace]_vars

\* --------------------------------------------- photos during a delivery

SendRaceTexts == {T("Gotovo V"), T("V Otpravit"), T("Povtorit otpravku")}

SendRaceMessages ==
  {Message("private", u, t, <<>>) : u \in Users, t \in SendRaceTexts}
  \cup {Message("private", u, Null, PhotoC) : u \in Users}

\* A photo arrives while the submission is being confirmed and delivered.
NextSendRace ==
  \/ \E h \in Handlers, m \in SendRaceMessages : Serve(h, FreshUpdateId, m, TRUE)
  \/ \E h \in Handlers : UpdateSubmission(h)
  \/ \E h \in Handlers : SendMessage(h)
  \/ \E h \in Handlers : AppendSelectForUpdate(h)
  \/ \E h \in Handlers : AppendUpdate(h)
  \/ \E h \in Handlers : SendHeader(h)
  \/ \E h \in Handlers : SendMediaGroup(h)
  \/ \E h \in Handlers : Respond(h)

SpecSendRace == InitRace /\ [][NextSendRace]_vars

\* ------------------------------------------------- the menu buttons alone

MenuMessages ==
  {Message("private", u, t, <<>>) :
     u \in Users, t \in {T("Sorevnovaniya SHSK"), T("Dostizheniya detey")}}

\* A menu button arrives, also while another one is being handled, as long
\* as the table has room for the row its handler inserts.
ServeMenu(h, message) ==
  /\ Len(bot_submissions) + PendingCreates < MaxSubmissions
  /\ Dispatch(h, FreshUpdateId, message)

NextMenu ==
  \/ \E h \in Handlers, m \in MenuMessages : ServeMenu(h, m)
  \/ \E h \in Handlers : UpdateSubmission(h)
  \/ \E h \in Handlers : CreateSubmission(h)
  \/ \E h \in Handlers : SendMessage(h)
  \/ \E h \in Handlers : Respond(h)

SpecMenu == Init /\ [][NextMenu]_vars

\* ------------------------------------------------------ the sending worker

\* The worker (supabase/functions/tg-worker) delivers the submissions that
\* wait with status pending_send. Time is counted in seconds.
MaxNow == 90
TickSeconds == 30
WorkerBatchLimit == 2

\* The waits a rate-limit response of the gateway may carry, in seconds.
RetryHints == {10, 30}

\* A submission handed to the worker with n photos.
PendingSend(id, userId, n) ==
  [Confirming(userId, n) EXCEPT !.id = id, !.status = "pending_send"]

InitWorker ==
  /\ \E u \in Users, n \in 1..2, m \in 1..2 :
       bot_submissions = <<PendingSend(1, u, n), PendingSend(2, u, m)>>
  /\ row_lock = <<"", "">>
  /\ tg_updates = {}
  /\ handler = [h \in Handlers |-> IdleHandler]
  /\ handled = [u \in UpdateIds |-> 0]
  /\ worker = IdleWorker
  /\ aborted = {}
  /\ prompt = IdlePrompt

\* The first n elements of an ascending enumeration of a set of ids.
RECURSIVE OldestFirst(_, _)
OldestFirst(ids, n) ==
  IF ids = {} \/ n = 0 THEN <<>>
  ELSE LET first == CHOOSE i \in ids : \A j \in ids : i <= j
       IN <<first>> \o OldestFirst(ids \ {first}, n - 1)

\* claimPending: the submissions waiting with no retry time or one that has
\* passed, oldest first, up to the batch limit.
claimPending(batchLimit) ==
  OldestFirst({i \in 1..Len(bot_submissions) :
                 /\ bot_submissions[i].status = "pending_send"
                 /\ \/ bot_submissions[i].next_retry_at = NoTime
                    \/ bot_submissions[i].next_retry_at <= worker.now},
              batchLimit)

\* A run of the worker claims its batch: the status of each claimed row
\* goes from pending_send to sending.
WorkerClaim ==
  LET batch == claimPending(WorkerBatchLimit) IN
  /\ worker.pc = "idle"
  /\ batch # <<>>
  /\ bot_submissions' = [i \in 1..Len(bot_submissions) |->
       IF \E k \in 1..Len(batch) : batch[k] = i
       THEN [bot_submissions[i] EXCEPT !.status = "sending"]
       ELSE bot_submissions[i]]
  /\ worker' = [worker EXCEPT !.pc = "sending", !.claimed = batch, !.last = NoOutcome]
  /\ UNCHANGED <<row_lock, tg_updates, handler, handled, aborted, prompt>>

\* Variant: a rate-limit response handled as any other failure.
markRetryAfterAsFailure(row, now, seconds) ==
  [row EXCEPT !.status = "failed", !.attempts = @ + 1,
              !.last_error = ErrorText("sendMediaGroup")]

markSent(row) ==
  [row EXCEPT !.status = "sent", !.last_error = Null, !.next_retry_at = NoTime]

markFailed(row) ==
  [row EXCEPT !.status = "failed", !.attempts = @ + 1,
              !.last_error = ErrorText("sendMediaGroup")]

markRetryAfter(row, now, seconds) ==
  [row EXCEPT !.status = "pending_send", !.attempts = @ + 1,
              !.next_retry_at = now + seconds,
              !.last_error = ErrorText("sendMediaGroup")]

\* The message the user gets for an outcome that ends the submission.
Notice(row) ==
  IF row.status = "sent" THEN <<[user |-> row.user_id, text |-> "delivered"]>>
  ELSE IF row.status = "failed"
  THEN <<[user |-> row.user_id, text |-> "delivery_failed"]>>
  ELSE <<>>

\* The worker delivers the first submission of its batch: the delivery
\* succeeds, is answered with a rate-limit response carrying a wait, or
\* fails otherwise.
WorkerDeliver ==
  LET id == Head(worker.claimed)
      row == bot_submissions[id]
      Record(outcome, hint, marked) ==
        /\ bot_submissions' = [bot_submissions EXCEPT ![id] = marked]
        /\ worker' = [worker EXCEPT
             !.claimed = Tail(@),
             !.pc = IF Len(worker.claimed) = 1 THEN "idle" ELSE "sending",
             !.notices = @ \o Notice(marked),
             !.last = [id |-> id, outcome |-> outcome, hint |-> hint,
                       at |-> worker.now, before |-> row,
                       notices |-> worker.notices]]
  IN
  /\ worker.pc = "sending"
  /\ \/ Record("sent", 0, markSent(row))
     \/ /\ row.attempts < MaxAttempts
        /\ \/ Record("failed", 0, markFailed(row))
           \/ \E seconds \in RetryHints :
                Record("rate_limit", seconds, markRetryAfter(row, worker.now, seconds))
  /\ UNCHANGED <<row_lock, tg_updates, handler, handled, aborted, prompt>>

\* Time passes between two runs of the worker.
Tick ==
  /\ worker.pc = "idle"
  /\ worker.now + TickSeconds <= MaxNow
  /\ worker' = [worker EXCEPT !.now = @ + TickSeconds]
  /\ UNCHANGED <<bot_submissions, row_lock, tg_updates, handler, handled, aborted, prompt>>

NextWorker == WorkerClaim \/ WorkerDeliver \/ Tick

SpecWorker == InitWorker /\ [][NextWorker]_vars

\* ------------------------------------------------ the editable photo prompt

\* Prompt messages the gateway sends (their message ids are 1..MaxMessageId).
MaxMessageId == 4

PhotoCounts == {0, 1}

\* sendPhotosCollectionPrompt: the text names the count when there are photos.
photosPromptText(photoCount) ==
  IF photoCount > 0 THEN "photos_prompt_received" ELSE "photos_prompt"

PromptCall(method, messageId, ok) ==
  [method |-> method, message_id |-> messageId, text |-> prompt.text, ok |-> ok]

\* sendPhotosCollectionPrompt calls ensurePhotoPromptMessage with the
\* submission as loaded: the edit is tried when a prompt message id is set.
sendPhotosCollectionPrompt(photoCount) ==
  /\ prompt.pc = "idle"
  /\ prompt' = [prompt EXCEPT
       !.pc = IF prompt.stored # NoMessage THEN "edit" ELSE "send",
       !.photos_prompt_message_id = prompt.stored,
       !.before = prompt.stored,
       !.text = photosPromptText(photoCount),
       !.calls = <<>>]
  /\ UNCHANGED <<bot_submissions, row_lock, tg_updates, handler, handled, worker, aborted>>

\* Variant: an edit that succeeds and is followed by a new message all the same.
EditMessageTextThenSend ==
  /\ prompt.pc = "edit"
  /\ prompt' = [prompt EXCEPT
       !.pc = "send",
       !.calls = Append(@, PromptCall("editMessageText",
                                      prompt.photos_prompt_message_id, TRUE))]
  /\ UNCHANGED <<bot_submissions, row_lock, tg_updates, handler, handled, worker, aborted>>

\* ensurePhotoPromptMessage: editMessageText succeeds, return.
EditMessageText ==
  /\ prompt.pc = "edit"
  /\ prompt' = [prompt EXCEPT
       !.pc = "done",
       !.calls = Append(@, PromptCall("editMessageText",
                                      prompt.photos_prompt_message_id, TRUE))]
  /\ UNCHANGED <<bot_submissions, row_lock, tg_updates, handler, handled, worker, aborted>>

\* ensurePhotoPromptMessage: editMessageText throws (the message is gone or
\* is not modified); the catch clears the id of the in-memory submission.
EditMessageTextFails ==
  /\ prompt.pc = "edit"
  /\ prompt' = [prompt EXCEPT
       !.pc = "send",
       !.photos_prompt_message_id = NoMessage,
       !.calls = Append(@, PromptCall("editMessageText",
                                      prompt.photos_prompt_message_id, FALSE))]
  /\ UNCHANGED <<bot_submissions, row_lock, tg_updates, handler, handled, worker, aborted>>

\* ensurePhotoPromptMessage: sendMessage answers with the message sent, whose
\* message_id is a number; the submission takes it.
PromptSendMessage ==
  /\ prompt.pc = "send"
  /\ prompt.last_message_id < MaxMessageId
  /\ LET messageId == prompt.last_message_id + 1 IN
     prompt' = [prompt EXCEPT
       !.pc = "save",
       !.photos_prompt_message_id = messageId,
       !.last_message_id = messageId,
       !.calls = Append(@, PromptCall("sendMessage", messageId, TRUE))]
  /\ UNCHANGED <<bot_submissions, row_lock, tg_updates, handler, handled, worker, aborted>>

\* callTelegram throws: the error leaves ensurePhotoPromptMessage.
PromptSendMessageFails ==
  /\ prompt.pc = "send"
  /\ prompt' = [prompt EXCEPT
       !.pc = "thrown",
       !.calls = Append(@, PromptCall("sendMessage", NoMessage, FALSE))]
  /\ UNCHANGED <<bot_submissions, row_lock, tg_updates, handler, handled, worker, aborted>>

\* ensurePhotoPromptMessage: updateSubmission stores the new message id.
PromptUpdateSubmission ==
  /\ prompt.pc = "save"
  /\ prompt' = [prompt EXCEPT !.pc = "done",
                              !.stored = prompt.photos_prompt_message_id]
  /\ UNCHANGED <<bot_submissions, row_lock, tg_updates, handler, handled, worker, aborted>>

\* updateSubmission throws.
PromptUpdateSubmissionFails ==
  /\ prompt.pc = "save"
  /\ prompt' = [prompt EXCEPT !.pc = "thrown"]
  /\ UNCHANGED <<bot_submissions, row_lock, tg_updates, handler, handled, worker, aborted>>

\* The handler returns; the next update finds the row as it was left.
PromptReturn ==
  /\ prompt.pc \in {"done", "thrown"}
  /\ prompt' = [IdlePrompt EXCEPT !.stored = prompt.stored,
                                  !.last_message_id = prompt.last_message_id]
  /\ UNCHANGED <<bot_submissions, row_lock, tg_updates, handler, handled, worker, aborted>>

\* Another branch stores the submission with photos_prompt_message_id = null.
PromptForgotten ==
  /\ prompt.pc = "idle"
  /\ prompt.stored # NoMessage
  /\ prompt' = [prompt EXCEPT !.stored = NoMessage]
  /\ UNCHANGED <<bot_submissions, row_lock, tg_updates, handler, handled, worker, aborted>>

NextPrompt ==
  \/ \E n \in PhotoCounts : sendPhotosCollectionPrompt(n)
  \/ EditMessageText
  \/ EditMessageTextFails
  \/ PromptSendMessage
  \/ PromptSendMessageFails
  \/ PromptUpdateSubmission
  \/ PromptUpdateSubmissionFails
  \/ PromptReturn
  \/ PromptForgotten

SpecPrompt == Init /\ [][NextPrompt]_vars

\* ------------------------------------------------------------ properties

\* The stored row an invocation works on.
Stored(h) == bot_submissions[handler[h].submission.id]

Max(a, b) == IF a >= b THEN a ELSE b
Min(a, b) == IF a <= b THEN a ELSE b

\* The invocation has made its last call and has not answered yet.
Completed(h) == handler[h].pc = "done"

\* C1: a call of append_submission_photo whose dedup key the row already
\* holds (an earlier call stored it, whatever file reference either call
\* passed) returns added = false and leaves the row unchanged, so the count
\* it returns is the count the earlier call left.
C1_SameKeyAppendIsNoOp ==
  \A h \in Handlers :
    LET r == handler[h].rpc IN
    (r.called /\ ~r.fresh) => (~r.added /\ r.unchanged)

\* C2: when a call of append_submission_photo commits while another call for
\* the same submission is in progress, the two results and the stored list
\* are those of running the first and then the second: the same new photo is
\* reported added once and stored once; two different new photos are both
\* stored, in commit order, and the larger returned count is the final length.
C2_ConcurrentAppendsSerialize ==
  \A h1 \in Handlers : \A h2 \in Handlers \ {h1} :
    LET r1 == handler[h1].rpc
        r2 == handler[h2].rpc
        list == Stored(h1).photo_file_ids
    IN
    (/\ Completed(h1) /\ Completed(h2)
     /\ r1.called /\ r2.called /\ r1.overlapped /\ r2.waited
     /\ ~Contains(r1.before, r1.file_id) /\ ~Contains(r1.before, r2.file_id))
    =>
    /\ r1.added /\ r1.photo_count = Len(r1.before) + 1
    /\ IF r1.file_id = r2.file_id
       THEN /\ ~r2.added
            /\ r2.photo_count = r1.photo_count
            /\ list = Append(r1.before, r1.file_id)
       ELSE /\ r2.added
            /\ list = r1.before \o <<r1.file_id, r2.file_id>>
            /\ Max(r1.photo_count, r2.photo_count) = Len(list)
            /\ Len(list) = Len(r1.before) + 2

\* Two calls overlapped and stored two different new photos.
C2_Witness ==
  \E h1 \in Handlers : \E h2 \in Handlers \ {h1} :
    /\ Completed(h1) /\ Completed(h2)
    /\ handler[h1].rpc.overlapped /\ handler[h2].rpc.waited
    /\ handler[h1].rpc.added /\ handler[h2].rpc.added
    /\ handler[h1].rpc.file_id # handler[h2].rpc.file_id
    /\ Len(Stored(h1).photo_file_ids) = 2

\* C3: of the deliveries of one update_id at most one gets past dedupeUpdate,
\* and a delivery found to be a duplicate writes no row and sends no message.
C3_AtMostOneDeliveryHandled ==
  /\ \A u \in UpdateIds : handled[u] <= 1
  /\ \A h \in Handlers :
       handler[h].duplicate =>
         /\ handler[h].writes = 0
         /\ handler[h].outbound = <<>>
         /\ handler[h].target_calls = <<>>

\* An update is delivered again while its first delivery is still handled:
\* the second delivery has returned as a duplicate.
C3_Witness ==
  \E h \in Handlers : \E g \in Handlers \ {h} :
    /\ handler[h].duplicate /\ Completed(h)
    /\ handler[g].pc = "run" /\ handler[g].update_id = handler[h].update_id
    /\ handler[g].writes > 0
    /\ handled[handler[h].update_id] = 1

\* C4: when updates are handled one after another, at most one row of a user
\* has status collecting, confirming or sending.
C4_AtMostOneNonTerminal ==
  \A u \in Users :
    Cardinality({i \in 1..Len(bot_submissions) :
                   /\ bot_submissions[i].user_id = u
                   /\ bot_submissions[i].status \in
                        {"collecting", "confirming", "sending"}}) <= 1

\* A menu selection replaced a submission in progress by a new one.
C4_Witness ==
  /\ Len(bot_submissions) = 2
  /\ bot_submissions[1].user_id = bot_submissions[2].user_id
  /\ bot_submissions[1].status = "failed"
  /\ bot_submissions[1].last_error = T("restart_by_user")
  /\ bot_submissions[1].achievement_text # Null
  /\ bot_submissions[2].status = "collecting"
  /\ \A h \in Handlers : handler[h].pc = "idle"

\* C5: after a photo message with a photo the row did not hold was handled
\* while the active submission had status failed, the stored list is the
\* list stored before followed by that photo, and the stored status is
\* collecting.
C5_PhotoWhileFailedIsStored ==
  \A h \in Handlers :
    LET s == handler[h] IN
    (Completed(h) /\ s.branch = "failed_photo" /\ s.rpc.added)
    =>
    /\ Stored(h).status = "collecting"
    /\ Stored(h).photo_file_ids = Append(s.loaded.photo_file_ids, s.rpc.file_id)

\* C6: after the skip choice was accepted as the answer of the discipline
\* step, the step derived from the stored row is await_gender.
C6_SkipMovesToGender ==
  \A h \in Handlers :
    LET s == handler[h] IN
    (/\ Completed(h) /\ s.branch = "answer"
     /\ getSubmissionStep(s.loaded) = "await_sport"
     /\ s.submission.sport = Null)
    => getSubmissionStep(Stored(h)) = "await_gender"

\* C7: after a delivery attempt whose header call or media-group call failed,
\* the row is stored with status failed, attempts one more than before,
\* last_error the text of the error thrown, and the user was sent one message,
\* a failure notice with the retry/cancel keyboard.
C7_DeliveryFailureRecorded ==
  \A h \in Handlers :
    LET s == handler[h] IN
    (Completed(h) /\ s.failed_call # "")
    =>
    /\ Stored(h).status = "failed"
    /\ Stored(h).attempts = s.loaded.attempts + 1
    /\ Stored(h).last_error = <<"Telegram API error (", s.failed_call, ")">>
    /\ Len(s.outbound) = 1
    /\ s.outbound[1].text \in {"delivery_failed", "delivery_failed_check"}
    /\ s.outbound[1].markup = "RETRY_ACTIONS_KEYBOARD"

\* The second media-group call of a delivery started from the confirmation
\* step failed.
C7_Witness ==
  \E h \in Handlers :
    /\ Completed(h) /\ handler[h].failed_call = "sendMediaGroup"
    /\ handler[h].branch = "send"
    /\ Len(handler[h].target_calls) = 3
    /\ Stored(h).attempts = 1

MediaCalls(h) ==
  SelectSeq(handler[h].target_calls, LAMBDA c : c.method = "sendMediaGroup")

RECURSIVE Concatenation(_)
Concatenation(calls) ==
  IF calls = <<>> THEN <<>> ELSE Head(calls).media \o Concatenation(Tail(calls))

\* C9: the media-group calls of a delivery carry the stored list in order, ten
\* photos per call and the rest in the last one: call i carries photos
\* 10(i-1)+1 .. min(10i, N), and a delivery that succeeded made ceil(N/10)
\* calls whose concatenation is the stored list.
C9_ChunkingCorrect ==
  \A h \in Handlers :
    LET s == handler[h]
        calls == MediaCalls(h)
    IN
    s.target_calls # <<>> =>
      LET ids == Stored(h).photo_file_ids
          N == Len(ids)
      IN
      /\ Len(calls) <= (N + 9) \div 10
      /\ \A i \in 1..Len(calls) :
           /\ Len(calls[i].media) \in 1..10
           /\ calls[i].media = SubSeq(ids, 10 * (i - 1) + 1, Min(10 * i, N))
      /\ (Completed(h) /\ s.failed_call = "") =>
           /\ Len(calls) = (N + 9) \div 10
           /\ Concatenation(calls) = ids

\* Fourteen photos were delivered in a call of ten and a call of four.
C9_Witness ==
  \E h \in Handlers :
    /\ Completed(h) /\ handler[h].failed_call = ""
    /\ Len(handler[h].target_calls) = 3
    /\ Len(Stored(h).photo_file_ids) = 14
    /\ Len(MediaCalls(h)[1].media) = 10
    /\ Len(MediaCalls(h)[2].media) = 4

\* C10: after /start, /cancel or a cancel button was handled, the submission
\* that was active, whatever its status and step, is stored with status failed
\* and last_error cancelled_by_user; and when a menu selection is about to
\* insert the new row, the submission that was active is stored with status
\* failed and last_error restart_by_user.
C10_ControlInputsForceFailed ==
  \A h \in Handlers :
    LET s == handler[h] IN
    /\ (Completed(h) /\ s.branch \in {"/start", "/cancel", "cancel"} /\ s.loaded.id # 0)
       => /\ Stored(h).status = "failed"
          /\ Stored(h).last_error = T("cancelled_by_user")
    /\ (NextOp(h, "createSubmission") /\ s.loaded.id # 0)
       => /\ s.branch = "menu"
          /\ Stored(h).status = "failed"
          /\ Stored(h).last_error = T("restart_by_user")

\* A cancel button was pressed at the confirmation step of a submission
\* whose last delivery had failed.
C10_Witness ==
  \E h \in Handlers :
    /\ Completed(h) /\ handler[h].branch = "cancel"
    /\ handler[h].loaded.status = "confirming"
    /\ handler[h].loaded.attempts = 1
    /\ Stored(h).last_error = T("cancelled_by_user")

Answer(h) == TrimText(handler[h].text)

\* The invocation handled an answer to a question of a submission in progress.
Answering(h) ==
  /\ Completed(h)
  /\ handler[h].loaded.id # 0
  /\ handler[h].loaded.status = "collecting"
  /\ Answer(h) \notin ControlTexts

\* The checks of the question steps.
FailsCheck(step, text) ==
  CASE step = "await_achievement_text" ->
         Falsy(text) \/ Len(text) > MAX_ACHIEVEMENT_TEXT_LENGTH
    [] step = "await_date" -> Falsy(text) \/ ~isValidDate(text)
    [] step = "await_type" -> text \notin TYPE_OPTIONS
    [] step = "await_custom_type" -> Falsy(text)
    [] step = "await_sport" -> text \notin DISCIPLINE_OPTIONS
    [] step = "await_gender" -> text \notin GENDER_OPTIONS
    [] step = "await_stage" -> text \notin STAGE_OPTIONS
    [] step = "await_phase" -> text \notin PHASE_OPTIONS
    [] OTHER -> FALSE

ErrorPrompts ==
  {"achievement_empty", "achievement_too_long", "bad_date", "bad_type",
   "enter_custom_type_text", "bad_discipline", "bad_category", "bad_stage",
   "bad_phase"}

\* C12: after an answer that fails the check of its question step was
\* handled, the stored row is the row loaded (so the derived step is the
\* same), no write was made, and the user was sent one message, the error
\* re-prompt of the step.
C12_InvalidAnswerChangesNothing ==
  \A h \in Handlers :
    LET s == handler[h] IN
    (Answering(h) /\ FailsCheck(getSubmissionStep(s.loaded), Answer(h)))
    =>
    /\ Stored(h) = s.loaded
    /\ getSubmissionStep(Stored(h)) = getSubmissionStep(s.loaded)
    /\ s.writes = 0
    /\ Len(s.outbound) = 1
    /\ s.outbound[1].text \in ErrorPrompts

\* An achievement text of 701 characters was rejected.
C12_Witness ==
  \E h \in Handlers :
    /\ Answering(h)
    /\ getSubmissionStep(handler[h].loaded) = "await_achievement_text"
    /\ handler[h].text = TooLong
    /\ handler[h].outbound = <<[text |-> "achievement_too_long", markup |-> "none"]>>

\* DD.MM.YY or DD.MM.YYYY: two digits, dot, two digits, dot, two or four digits.
HasDateForm(text) ==
  /\ text # Null
  /\ Len(text) \in {8, 10}
  /\ \A i \in {1, 2, 4, 5} : text[i] \in Digits
  /\ text[3] = "." /\ text[6] = "."
  /\ \A i \in 7..Len(text) : text[i] \in Digits

\* C13: at step await_date the trimmed text is stored as event_date exactly
\* when it has the form DD.MM.YY or DD.MM.YYYY; every other text is rejected
\* and leaves the row as it was.
C13_DateAcceptedIffForm ==
  \A h \in Handlers :
    LET s == handler[h] IN
    (Answering(h) /\ getSubmissionStep(s.loaded) = "await_date")
    =>
    IF HasDateForm(Answer(h))
    THEN Stored(h) = [s.loaded EXCEPT !.event_date = Answer(h)]
    ELSE Stored(h) = s.loaded

\* An explicitly tracked step pointer: the step after an accepted answer.
Advanced(step, answer) ==
  CASE step = "await_achievement_text" -> "await_photos"
    [] step = "await_date" -> "await_type"
    [] step = "await_type" ->
         IF answer = T("Svoy variant") THEN "await_custom_type" ELSE "await_sport"
    [] step = "await_custom_type" -> "await_sport"
    [] step = "await_sport" -> "await_gender"
    [] step = "await_gender" -> "await_stage"
    [] step = "await_stage" -> "await_phase"
    [] step = "await_phase" -> "await_photos"
    [] OTHER -> step

\* The row with everything but its kind and its answer fields cleared.
AnswersOnly(submission) ==
  [submission EXCEPT !.status = "collecting", !.photo_file_ids = <<>>,
                     !.photo_unique_ids = <<>>, !.attempts = 0,
                     !.last_error = Null]

\* C14: the derived step depends only on the kind and the answer fields, and
\* after an accepted answer the step derived from the reloaded row is the
\* step a tracked pointer, advanced once for that answer, holds.
C14_DerivedStepTracksPointer ==
  /\ \A i \in 1..Len(bot_submissions) :
       getSubmissionStep(bot_submissions[i])
         = getSubmissionStep(AnswersOnly(bot_submissions[i]))
  /\ \A h \in Handlers :
       LET s == handler[h] IN
       (Answering(h) /\ s.branch = "answer")
       => getSubmissionStep(Stored(h))
            = Advanced(getSubmissionStep(s.loaded), Answer(h))

\* The lines of a header that list answers: all but the bracket lines and
\* the closing empty line.
Listed(header) ==
  SelectSeq(SubSeq(header, 1, Len(header) - 1),
            LAMBDA line : line \notin {T("["), T("]")})

\* The answers a header lists: the date, the resolved type, the discipline
\* unless it was skipped, the category, the stage and the phase; for an
\* achievement the label and the text.
ListedAnswers(submission, skipped) ==
  IF submission.kind = "achievement"
  THEN <<T("Dostizheniya detey"), OrEmpty(submission.achievement_text)>>
  ELSE <<OrEmpty(submission.event_date),
         IF submission.event_type = T("Svoy variant")
         THEN OrEmpty(submission.custom_event_type)
         ELSE OrEmpty(submission.event_type)>>
       \o (IF skipped THEN <<>> ELSE <<OrEmpty(submission.sport)>>)
       \o <<OrEmpty(submission.gender), OrEmpty(submission.stage),
            OrEmpty(submission.phase)>>

\* The invocation accepted the skip button as the answer for the discipline.
SkippedDiscipline(h) ==
  /\ Answering(h)
  /\ handler[h].branch = "answer"
  /\ getSubmissionStep(handler[h].loaded) = "await_sport"
  /\ Answer(h) = T("Propustit")

\* Every header sent to the target chat lists the answers of its submission.
HeaderSentListsAnswers ==
  \A h \in Handlers :
    LET s == handler[h] IN
    s.target_calls # <<>> =>
      Listed(s.target_calls[1].text) = ListedAnswers(s.submission, FALSE)

\* C15: a header lists the date, the resolved type, the discipline, the
\* category, the stage and the phase in this order, or the label and the
\* achievement text, and the header of a submission whose discipline was
\* skipped has no line for the discipline.
C15_HeaderListsAnswers ==
  /\ HeaderSentListsAnswers
  /\ \A h \in Handlers :
       SkippedDiscipline(h) =>
         Listed(buildSubmissionHeader(Stored(h))) = ListedAnswers(Stored(h), TRUE)

\* The slot answered its last request.
Answered(h) == handler[h].pc = "idle" /\ handler[h].response # 0

\* C16: every request that was answered was answered with status 200,
\* whether it succeeded, was a duplicate or caught an error of the body, the
\* store or the gateway; a caught error was reported to the admin chat, and
\* the answer is 200 whether the report was sent or failed.
C16_AlwaysAnswersOk ==
  \A h \in Handlers :
    LET s == handler[h] IN
    /\ s.response \in {0, 200}
    /\ s.pc \in {"idle", "done"} =>
         IF s.thrown = "" THEN s.admin = "" ELSE s.admin \in {"sent", "failed"}
    /\ s.pc = "catch" => s.thrown # "" /\ s.todo = <<>>

\* A request whose save failed and whose report to the admin chat failed
\* too was answered.
C16_Witness ==
  \E h \in Handlers :
    /\ Answered(h)
    /\ handler[h].response = 200
    /\ handler[h].thrown = "Failed to save submission"
    /\ handler[h].admin = "failed"

\* The invocation handled a message of a private chat with a sender.
Conversing(h) ==
  /\ Completed(h)
  /\ ~handler[h].duplicate
  /\ handler[h].branch # "ignored"

\* The messages without a text are the photo messages.
CarriesPhoto(h) == handler[h].text = Null

\* The input is a command, a menu choice, or an answer or a button valid for
\* the status and the step of the submission that was active.
Recognised(h) ==
  LET s == handler[h]
      step == getSubmissionStep(s.loaded)
  IN
  \/ Answer(h) \in ControlTexts
  \/ /\ s.loaded.id # 0
     /\ CASE s.loaded.status = "failed" ->
               Answer(h) = T("Povtorit otpravku") \/ CarriesPhoto(h)
          [] s.loaded.status = "confirming" ->
               Answer(h) \in {T("+ Dobavit foto"), T("V Otpravit")}
          [] s.loaded.status = "collecting" ->
               IF step = "await_photos"
               THEN Answer(h) = T("Gotovo V") \/ CarriesPhoto(h)
               ELSE ~FailsCheck(step, Answer(h))
          [] OTHER -> FALSE

Distinct(list) ==
  \A i \in 1..Len(list) : \A j \in 1..Len(list) : list[i] = list[j] => i = j

\* C18: in every state the two photo lists of a submission have the same
\* length, no dedup key occurs twice, and a photo that a call appended
\* stands where that call put it, at the end of the list as it then was.
C18_PhotoListsAligned ==
  /\ \A i \in 1..Len(bot_submissions) :
       /\ Len(bot_submissions[i].photo_file_ids)
            = Len(bot_submissions[i].photo_unique_ids)
       /\ Distinct(bot_submissions[i].photo_unique_ids)
  /\ \A h \in Handlers :
       LET r == handler[h].rpc IN
       (r.called /\ r.added) =>
         /\ r.photo_count <= Len(Stored(h).photo_file_ids)
         /\ Stored(h).photo_file_ids[r.photo_count] = r.file_id

\* The submissions stored with status sent.
SentIds == {i \in 1..Len(bot_submissions) : bot_submissions[i].status = "sent"}

C20_RateLimitReschedules ==
  LET last == worker.last IN
  (last.outcome = "rate_limit" /\ last.hint = 30) =>
    /\ bot_submissions[last.id]
         = [last.before EXCEPT !.status = "pending_send",
                               !.next_retry_at = last.at + 30,
                               !.attempts = last.before.attempts + 1,
                               !.last_error = bot_submissions[last.id].last_error]
    /\ worker.notices = last.notices

\* A delivery made 30 seconds after the start was answered with a
\* rate-limit response carrying a wait of 30 seconds.
C20_Witness ==
  /\ worker.last.outcome = "rate_limit"
  /\ worker.last.hint = 30
  /\ worker.last.at = 30
  /\ bot_submissions[worker.last.id].next_retry_at = 60

\* No invocation is in progress.
Quiet == \A h \in Handlers : handler[h].pc \in {"idle", "done"}

\* C21: when no invocation is in progress any more, a photo that was
\* received at step await_photos and whose append reported added = true is
\* in the stored photo list of its submission, whatever other invocation
\* saved the submission in between.
C21_AddedPhotoSurvivesSaves ==
  Quiet =>
    \A h \in Handlers :
      LET r == handler[h].rpc IN
      (Completed(h) /\ handler[h].branch = "photo" /\ r.called /\ r.added) =>
        Contains(Stored(h).photo_file_ids, r.file_id)

\* The rows of a user that have a non-terminal status.
NonTerminal(u) ==
  {i \in 1..Len(bot_submissions) :
     /\ bot_submissions[i].user_id = u
     /\ bot_submissions[i].status \in {"collecting", "confirming", "sending"}}

\* C22: when the handlers of two menu selections of a user that overlapped
\* have both completed, at most one row of the user has status collecting,
\* confirming or sending.
C22_ConcurrentMenusLeaveOneActive ==
  Quiet => \A u \in Users : Cardinality(NonTerminal(u)) <= 1

\* The invocation has a save of the submission still to make.
SavePending(h) ==
  \E i \in 1..Len(handler[h].todo) : handler[h].todo[i].op = "updateSubmission"

\* C23: an invocation that has sent the user a message has no save of the
\* submission left to make: in every branch the save comes before the
\* messages.
C23_SaveBeforeMessage ==
  \A h \in Handlers : handler[h].outbound # <<>> => ~SavePending(h)

\* C24: the first call of a delivery attempt to the target is the header
\* message, the calls after it are the photo batches in their order, one
\* call per step, and once a call has failed the attempt makes no further
\* call to the target.
C24_DeliveryCallsInOrder ==
  [][\A h \in Handlers :
       LET before == handler[h]
           after == handler'[h]
           calls == after.target_calls
       IN
       /\ calls # <<>> =>
            /\ calls[1].method = "sendMessage"
            /\ \A i \in 2..Len(calls) :
                 /\ calls[i].method = "sendMediaGroup"
                 /\ calls[i].media = after.batches[i - 1]
       /\ (after.pc # "idle" /\ calls # before.target_calls) =>
            /\ before.failed_call = ""
            /\ Len(calls) = Len(before.target_calls) + 1
            /\ SubSeq(calls, 1, Len(calls) - 1) = before.target_calls
       /\ after.failed_call # "" =>
            after.failed_call = calls[Len(calls)].method]_vars

\* The first of three photo batches failed: the attempt ended after the
\* header and one batch.
C24_Witness ==
  \E h \in Handlers :
    /\ Completed(h)
    /\ handler[h].failed_call = "sendMediaGroup"
    /\ Len(handler[h].batches) = 3
    /\ Len(handler[h].target_calls) = 2

\* The invocation handled an input while the active submission had the
\* given status.
HandledIn(h, status) ==
  /\ Conversing(h)
  /\ handler[h].loaded.id # 0
  /\ handler[h].loaded.status = status

C26_ConfirmingStatusInputs ==
  \A h \in Handlers :
    LET s == handler[h] IN
    HandledIn(h, "confirming") =>
      /\ Answer(h) = T("+ Dobavit foto") =>
           /\ Stored(h) = [s.loaded EXCEPT !.status = "collecting"]
           /\ getSubmissionStep(Stored(h)) = "await_photos"
           /\ s.target_calls = <<>>
      /\ Answer(h) = T("V Otpravit") =>
           /\ s.target_calls # <<>>
           /\ s.target_calls[1].text = buildSubmissionHeader(s.loaded)
      /\ Answer(h) \notin ControlTexts \cup {T("+ Dobavit foto"), T("V Otpravit")} =>
           /\ Stored(h) = s.loaded
           /\ s.writes = 0
           /\ s.target_calls = <<>>
           /\ s.outbound = <<[text |-> "choose_action",
                              markup |-> "CONFIRM_ACTIONS_KEYBOARD"]>>

\* The add-more button was pressed at the confirmation step of a
\* competition submission.
C26_Witness ==
  \E h \in Handlers :
    /\ HandledIn(h, "confirming")
    /\ Answer(h) = T("+ Dobavit foto")
    /\ Stored(h).kind = "competition"
    /\ Stored(h).status = "collecting"
    /\ Stored(h).photo_file_ids # <<>>

\* The competition rows whose type is the custom one and whose custom type
\* is not given.
CustomTypeMissing ==
  {i \in 1..Len(bot_submissions) :
     /\ bot_submissions[i].kind = "competition"
     /\ bot_submissions[i].event_type = T("Svoy variant")
     /\ Falsy(bot_submissions[i].custom_event_type)}

\* C27: a stored competition submission whose type is the custom one and
\* whose custom type is null or empty has the derived step
\* await_custom_type and no discipline, category, stage or phase.
C27_CustomTypeBeforeTheRest ==
  \A i \in CustomTypeMissing :
    /\ getSubmissionStep(bot_submissions[i]) = "await_custom_type"
    /\ Falsy(bot_submissions[i].sport)
    /\ Falsy(bot_submissions[i].gender)
    /\ Falsy(bot_submissions[i].stage)
    /\ Falsy(bot_submissions[i].phase)

\* A blank text and a discipline label were given as the custom type: the
\* blank one was rejected.
C27_Witness ==
  \E h \in Handlers :
    /\ Answering(h)
    /\ handler[h].submission.id \in CustomTypeMissing
    /\ handler[h].text = Blank
    /\ handler[h].branch = "invalid"

\* The inserts an invocation has still to make.
Creates(slot) ==
  Cardinality({i \in 1..Len(slot.todo) : slot.todo[i].op = "createSubmission"})

\* The kind a menu label chooses.
ChosenKind(text) ==
  IF text = T("Sorevnovaniya SHSK") THEN "competition" ELSE "achievement"

\* A row as a menu selection is to create it.
FreshRow(row, kind) ==
  /\ row.kind = kind
  /\ row.status = "collecting"
  /\ row.photo_file_ids = <<>> /\ row.photo_unique_ids = <<>>
  /\ row.attempts = 0
  /\ \A answer \in {row.event_date, row.event_type, row.custom_event_type,
                    row.sport, row.gender, row.stage, row.phase,
                    row.achievement_text} : answer = Null
  /\ getSubmissionStep(row) =
       IF kind = "competition" THEN "await_date" ELSE "await_achievement_text"

\* C28: a menu selection creates exactly one new submission, of the chosen
\* kind, with status collecting, empty photo lists, zero attempts and no
\* answers, whose derived step is the first step of the kind.
C28_MenuCreatesOneFreshSubmission ==
  [][/\ \A h \in Handlers :
          LET before == handler[h]
              after == handler'[h]
          IN
          /\ (before.pc = "idle" /\ after.pc = "run" /\ after.branch = "menu")
               => Creates(after) = 1
          /\ Creates(after) < Creates(before)
               => /\ Creates(after) = 0
                  /\ before.branch = "menu"
                  /\ Len(bot_submissions') = Len(bot_submissions) + 1
                  /\ SubSeq(bot_submissions', 1, Len(bot_submissions)) = bot_submissions
                  /\ FreshRow(bot_submissions'[Len(bot_submissions')],
                              ChosenKind(TrimText(before.text)))
          /\ Creates(after) > Creates(before) => before.pc = "idle"
     /\ Len(bot_submissions') # Len(bot_submissions)
          => \E h \in Handlers : Creates(handler'[h]) < Creates(handler[h])
    ]_vars

\* The user chose the achievements while a competition submission was being
\* filled: the old row is failed and one new achievement row is stored.
C28_Witness ==
  \E h \in Handlers :
    /\ Completed(h) /\ handler[h].branch = "menu"
    /\ Answer(h) = T("Dostizheniya detey")
    /\ handler[h].loaded.id # 0
    /\ handler[h].loaded.kind = "competition"
    /\ Len(bot_submissions) = handler[h].loaded.id + 1
    /\ bot_submissions[Len(bot_submissions)].kind = "achievement"
    /\ bot_submissions[handler[h].loaded.id].status = "failed"

\* Position i holds a largest variant and every later variant is smaller.
LastLargest(photos, i) ==
  /\ \A j \in 1..Len(photos) : FileSize(photos[j]) <= FileSize(photos[i])
  /\ \A j \in (i + 1)..Len(photos) : FileSize(photos[j]) < FileSize(photos[i])

\* C29: of the variants of a photo message, pickLargestPhoto returns one of
\* maximal file_size (a missing size counting as 0), the last in the list of
\* those that share the maximum, and it returns null only for the empty list;
\* the variant it returns is the one the handler appends.
C29_LargestVariantLastOfTies ==
  /\ pickLargestPhoto(<<>>) = NoPhoto
  /\ \A h \in Handlers :
       LET photos == handler[h].photo
           picked == pickLargestPhoto(photos)
       IN photos # <<>> =>
            /\ picked # NoPhoto
            /\ \E i \in 1..Len(photos) : photos[i] = picked /\ LastLargest(photos, i)
            /\ handler[h].rpc.called => handler[h].rpc.file_id = picked.file_id

\* Three variants: the first two share the largest size, the third has no
\* size; the second was appended.
C29_Witness ==
  \E h \in Handlers :
    LET photos == handler[h].photo IN
    /\ Completed(h) /\ handler[h].rpc.called
    /\ Len(photos) = 3
    /\ photos[1].file_size = 9 /\ photos[2].file_size = 9
    /\ photos[3].file_size = NoSize
    /\ handler[h].rpc.file_id = photos[2].file_id
    /\ Contains(Stored(h).photo_file_ids, photos[2].file_id)

\* C30: a photo message whose dedup key the submission already holds,
\* received at the photo step, leaves the stored submission as it was (photo
\* lists, status, answers, attempts), raises no error and sends the user no
\* message.
C30_StoredKeyPhotoChangesNothing ==
  \A h \in Handlers :
    LET r == handler[h].rpc IN
    (/\ Completed(h) /\ handler[h].branch = "photo"
     /\ getSubmissionStep(handler[h].loaded) = "await_photos"
     /\ r.called /\ ~r.fresh)
    =>
    /\ r.unchanged
    /\ handler[h].thrown = ""
    /\ handler[h].outbound = <<>>

\* C31: a message from a chat that is not private, or without a sender,
\* loads and changes no submission, creates none and sends nothing; only its
\* update_id is added to the ledger.
C31_ForeignMessageOnlyRecorded ==
  [][\A h \in Handlers :
       LET before == handler[h]
           after == handler'[h]
       IN (before.pc = "idle" /\ after.branch = "ignored") =>
            /\ after.pc = "done" /\ after.todo = <<>>
            /\ after.loaded = NoSubmission /\ after.submission = NoSubmission
            /\ after.outbound = <<>> /\ after.target_calls = <<>>
            /\ after.writes = 0
            /\ bot_submissions' = bot_submissions
            /\ tg_updates' = tg_updates \cup ({after.update_id} \cap UpdateIds)
    ]_vars

\* A message from a group chat or without a sender was recorded while a
\* submission was being filled.
C31_Witness ==
  \E h \in Handlers :
    /\ Completed(h) /\ handler[h].branch = "ignored"
    /\ handler[h].update_id \in tg_updates
    /\ \E i \in 1..Len(bot_submissions) : bot_submissions[i].status = "collecting"

\* C33: the update_id is recorded before the update is handled, so an update
\* whose handling ended in an error after the record was written is a
\* duplicate when it is delivered again: its handler does not run, no
\* submission changes, and the update gets past dedupeUpdate once at most.
C33_AbortedUpdateNeverHandledAgain ==
  [][/\ \A h \in Handlers :
          LET before == handler[h]
              after == handler'[h]
          IN (before.pc = "idle" /\ after.pc # "idle" /\ after.update_id \in aborted) =>
               /\ after.duplicate /\ after.pc = "done"
               /\ after.todo = <<>> /\ after.writes = 0 /\ after.outbound = <<>>
               /\ bot_submissions' = bot_submissions
     /\ \A u \in aborted' : u \in tg_updates' /\ handled'[u] = 1
    ]_vars

\* An update whose handling ended in an error came again and was answered
\* as a duplicate; the submission it would have created does not exist.
C33_Witness ==
  \E h \in Handlers :
    /\ Completed(h) /\ handler[h].duplicate
    /\ handler[h].update_id \in aborted
    /\ handled[handler[h].update_id] = 1
    /\ bot_submissions = <<>>

\* The calls of one method that issuing the prompt has made.
PromptCalls(method) ==
  {i \in 1..Len(prompt.calls) : prompt.calls[i].method = method}

\* C32: in the variant with an editable prompt, issuing the photo prompt with
\* a prompt message id stored first tries to edit that message and sends no
\* new message when the edit succeeds; when the edit fails, or no id is
\* stored, one new message is sent and its id is stored on the submission.
C32_PromptEditedOrSentAnew ==
  LET calls == prompt.calls IN
  /\ Cardinality(PromptCalls("editMessageText")) <= 1
  /\ Cardinality(PromptCalls("sendMessage")) <= 1
  /\ prompt.pc = "done" =>
       /\ prompt.before # NoMessage =>
            /\ calls[1].method = "editMessageText"
            /\ calls[1].message_id = prompt.before
       /\ (prompt.before # NoMessage /\ calls[1].ok) =>
            /\ Len(calls) = 1
            /\ prompt.stored = prompt.before
       /\ (prompt.before = NoMessage \/ ~calls[1].ok) =>
            /\ Cardinality(PromptCalls("sendMessage")) = 1
            /\ calls[Len(calls)].method = "sendMessage"
            /\ calls[Len(calls)].ok
            /\ prompt.stored = calls[Len(calls)].message_id
            /\ prompt.stored \notin {NoMessage, prompt.before}

\* The stored prompt could not be edited: a new message was sent and its id
\* replaced the stored one.
C32_Witness ==
  /\ prompt.pc = "done"
  /\ prompt.before # NoMessage
  /\ Len(prompt.calls) = 2
  /\ ~prompt.calls[1].ok
  /\ prompt.calls[2].method = "sendMessage"
  /\ prompt.stored = prompt.calls[2].message_id

\* The invocation is in a branch that delivers the submission to the target.
Delivering(h) == handler[h].branch \in {"send", "retry"}

\* C34: of two send or retry-send updates for one submission that are
\* handled at the same time, at most one handler transmits the submission's
\* header and photos to the target.
C34_OneHandlerDelivers ==
  \A h1 \in Handlers : \A h2 \in Handlers \ {h1} :
    (/\ Delivering(h1) /\ Delivering(h2)
     /\ handler[h1].submission.id = handler[h2].submission.id)
    => ~(handler[h1].target_calls # <<>> /\ handler[h2].target_calls # <<>>)

\* The invocation is to call sendSubmissionToTarget, or has called it.
DeliveryStarted(h) ==
  \/ handler[h].target_calls # <<>>
  \/ handler[h].pc = "sendMediaGroup"
  \/ \E i \in 1..Len(handler[h].todo) : handler[h].todo[i].op = "sendSubmissionToTarget"

EndedByUser == {T("cancelled_by_user"), T("restart_by_user")}

\* C36: a submission the user cancelled or replaced (stored as failed with
\* last_error cancelled_by_user or restart_by_user) is not delivered to the
\* target and not moved back to status collecting by any later input of
\* that user.
C36_CancelledStaysCancelled ==
  \A h \in Handlers :
    (/\ handler[h].loaded.status = "failed"
     /\ handler[h].loaded.last_error \in EndedByUser)
    => /\ ~DeliveryStarted(h)
       /\ handler[h].submission.status # "collecting"
       /\ Stored(h).status \notin {"collecting", "sent"}

\* The step is the save that follows a failed delivery of submission id.
FailedAttemptSaved(h, id) ==
  /\ handler[h].failed_call # ""
  /\ handler[h].submission.id = id
  /\ NextOp(h, "updateSubmission")
  /\ handler'[h].writes = handler[h].writes + 1

\* C37: a submission's attempts counts the delivery attempts for it that
\* failed: the save after a failed attempt adds exactly 1, and no other step
\* (a successful delivery, a cancel, an answer, a photo) changes it; a new
\* submission starts with 0.
C37_AttemptsCountFailedDeliveries ==
  [][/\ \A i \in 1..Len(bot_submissions) :
          LET before == bot_submissions[i].attempts
              after == bot_submissions'[i].attempts
          IN /\ after >= before
             /\ (\E h \in Handlers : FailedAttemptSaved(h, i)) <=> after = before + 1
             /\ after # before => after = before + 1
     /\ \A i \in (Len(bot_submissions) + 1)..Len(bot_submissions') :
          bot_submissions'[i].attempts = 0
    ]_vars

\* C38: a submission stored with status sent holds exactly the photos that
\* the media-group calls of the delivery that succeeded carried, in that
\* order, also when a photo was appended while the delivery ran.
C38_SentListWasTransmitted ==
  \A h \in Handlers :
    (/\ Completed(h) /\ Delivering(h) /\ handler[h].failed_call = ""
     /\ \A g \in Handlers \ {h} : ~Delivering(g)
     /\ Stored(h).status = "sent")
    => Concatenation(MediaCalls(h)) = Stored(h).photo_file_ids

====
